---- MODULE Spec2Model ----
(***************************************************************************)
(* A model of rslox: the stack VM of src/src/vm.rs executing the bytecode  *)
(* that src/src/compiler/mod.rs emits, with the value model of             *)
(* src/src/value.rs, the natives of src/src/native and the driver of       *)
(* src/src/main.rs.  Spec is the driver and the VM on compiled programs;   *)
(* CompileSpec is Parser::compile, piece by piece, up to the start of run; *)
(* ScanSpec is Scanner::scan_token, call by call, over short sources;     *)
(* CloseSpec is the VM at a Return with open upvalues; ParseSpec is the    *)
(* recursive descent of Parser::compile over token streams, declaration by *)
(* declaration, followed by the run of the function it returns.            *)
(*                                                                         *)
(* Conventions.                                                            *)
(*  - Rust indices are 0-based; TLA+ sequences are 1-based.  Every index   *)
(*    kept in the state (ip, first_slot, location, constant and slot       *)
(*    operands) is the 0-based Rust index; At(s, i) reads s[i] of Rust.    *)
(*  - A Rust String is the sequence of its bytes (ASCII codes), so that    *)
(*    concatenation, length and the lexicographic order are computed.      *)
(*  - An Rc<RefCell<Closure>> is an index into the heap `closures`, an     *)
(*    Rc<RefCell<Upvalue>> an index into the heap `upvalues` (1-based      *)
(*    cell numbers: they are names of objects, not Rust indices).          *)
(*  - A chunk's code is the byte sequence of the source.  The conversion   *)
(*    between a byte and an OpCode is the table OpCodes.                   *)
(*  - A record field has one type throughout: a Value holds its payload in *)
(*    a field of its variant (b, n, s, f, c, native, u).                   *)
(*  - An f64 is modelled by an integer; an operation whose f64 result is   *)
(*    no integer (1/0, sqrt(2)) has no outcome in the model.               *)
(***************************************************************************)
EXTENDS Integers, Sequences, FiniteSets, TLC

VARIABLES
    mode,           \* main.rs: "file" (run_file) or "repl" (repl)
    lines_read,     \* main.rs: number of sources handed to interpret so far
    frames,         \* VM.frames: Seq of CallFrame
    stack,          \* VM.stack: Seq of Value
    open_upvalues,  \* VM.open_upvalues: Seq of cell numbers
    globals,        \* VM.globals: function from names to Values
    closures,       \* heap of value::Closure objects
    upvalues,       \* heap of value::Upvalue cells
    result,         \* "New" before the first interpret, "Running" inside run,
                    \* else what interpret returned, or "Panic" (host aborted)
    stdout,         \* lines written by println!
    stderr,         \* lines written by eprintln! and eprint!
    exit_code,      \* main.rs: <<>> while the process runs, <<n>> after exit(n)
    parser,         \* compiler/mod.rs: None, or the compilation under way: the
                    \* source it started from, the pieces left, and the Parsers
                    \* of two runs over that source
    scanner         \* scanner.rs: None, or the Scanner under way and the token
                    \* its last scan_token returned

vars == <<mode, lines_read, frames, stack, open_upvalues, globals, closures,
          upvalues, result, stdout, stderr, exit_code, parser, scanner>>

-----------------------------------------------------------------------------
(* Bounds of the model. *)

\* REPL lines read by one run of the driver.
MaxLines == 2
\* Length of the argument vector of the process (the program name included).
MaxArgv == 3
\* Frames the recursion of a modelled program may reach before the model stops.
MaxDepth == 66

-----------------------------------------------------------------------------
(* Generic helpers. *)

At(s, i) == s[i + 1]

Last(s) == s[Len(s)]

\* Vec::truncate(len)
Truncate(s, len) == IF len >= Len(s) THEN s ELSE SubSeq(s, 1, len)

\* Option<T>
None == [t |-> "None"]

-----------------------------------------------------------------------------
(* value.rs: the Value enum. *)

NilV == [t |-> "Nil"]
BoolV(b) == [t |-> "Bool", b |-> b]
NumberV(n) == [t |-> "Number", n |-> n]
StringV(s) == [t |-> "String", s |-> s]
FunctionV(f) == [t |-> "Function", f |-> f]
ClosureV(c) == [t |-> "Closure", c |-> c]
NativeV(native) == [t |-> "Native", native |-> native]
UpvalueV(u) == [t |-> "Upvalue", u |-> u]

\* Function { arity, name, chunk { code, constants, lines }, upvalue_count }
Function(arity, name, code, constants, lines, upvalue_count) ==
    [arity |-> arity, name |-> name,
     chunk |-> [code |-> code, constants |-> constants, lines |-> lines],
     upvalue_count |-> upvalue_count]

\* Closure::new: no upvalue captured yet
ClosureNew(function) == [function |-> function, upvalues |-> <<>>]

\* Upvalue::new
UpvalueNew(slot) == [location |-> slot, closed |-> None]

\* The decimal digits of a natural number, as bytes.
RECURSIVE Digits(_)
Digits(n) == IF n < 10 THEN <<48 + n>> ELSE Digits(n \div 10) \o <<48 + (n % 10)>>

\* Display of an f64 with an integer value
DisplayNumber(n) == IF n < 0 THEN <<45>> \o Digits(0 - n) ELSE Digits(n)

\* "<script>" or "<fn NAME>"
DisplayFunction(name) ==
    IF Len(name) = 0 THEN <<60, 115, 99, 114, 105, 112, 116, 62>>
    ELSE <<60, 102, 110, 32>> \o name \o <<62>>

\* impl fmt::Display for Value, for every variant but Upvalue
DisplayPlain(value) ==
    CASE value.t = "Bool" ->
            IF value.b THEN <<116, 114, 117, 101>> ELSE <<102, 97, 108, 115, 101>>
      [] value.t = "Nil" -> <<110, 105, 108>>
      [] value.t = "Number" -> DisplayNumber(value.n)
      [] value.t = "String" -> value.s
      [] value.t = "Function" -> DisplayFunction(value.f.name)
      [] value.t = "Closure" -> DisplayFunction(closures[value.c].function.name)
      [] value.t = "Native" -> <<60, 102, 110, 32>> \o value.native.name \o <<62>>

\* impl fmt::Display for Value.  A cell never holds an Upvalue wrapper (no
\* instruction stores one into closed without it having been read from the
\* stack, see SetUpvalue), but the match is recursive in the source.
RECURSIVE Display(_)
Display(value) ==
    IF value.t = "Upvalue"
    THEN IF upvalues[value.u].closed = None
         THEN <<60, 99, 108, 111, 115, 101, 100, 62>>
         ELSE Display(upvalues[value.u].closed)
    ELSE DisplayPlain(value)

\* impl PartialEq for Value
ValueEq(a, b) ==
    CASE a.t = "Bool" /\ b.t = "Bool" -> a.b = b.b
      [] a.t = "Nil" /\ b.t = "Nil" -> TRUE
      [] a.t = "Number" /\ b.t = "Number" -> a.n = b.n
      [] a.t = "String" /\ b.t = "String" -> a.s = b.s
      [] OTHER -> FALSE

\* Ord for String: the lexicographic order of the bytes
RECURSIVE StrLess(_, _)
StrLess(a, b) ==
    IF Len(b) = 0 THEN FALSE
    ELSE IF Len(a) = 0 THEN TRUE
    ELSE IF a[1] # b[1] THEN a[1] < b[1]
    ELSE StrLess(Tail(a), Tail(b))

-----------------------------------------------------------------------------
(* native/clock.rs, native/sqrt.rs and VM::define_native.  The natives read
   the heaps only to display a value. *)

\* Milliseconds the host clock may report.
MaxClock == 1

\* A message built by format!: the template and, for each {}, the Display of
\* the value it is given.
Message(fmt, args) == [fmt |-> fmt, args |-> args]

Ok(value) == [t |-> "Ok", value |-> value]
Err(message) == [t |-> "Err", message |-> message]
Panicked == [t |-> "Panic"]

\* The integer square root of a perfect square.
IsSquare(n) == n >= 0 /\ \E r \in 0..n : r * r = n
Sqrt(n) == CHOOSE r \in 0..n : r * r = n

\* clock(_arg_count, _values): the time of the host, or Err when the host's
\* clock is set before the epoch.
clock(arg_count, values) ==
    {Ok(NumberV(time)) : time \in 0..MaxClock}
        \cup {Err(Message("SystemTime before UNIX EPOCH!", <<>>))}

\* sqrt(_arg_count, values): values[0] is indexed whatever arg_count is, and
\* indexing an empty slice panics.
sqrt(arg_count, values) ==
    IF Len(values) = 0 THEN {Panicked}
    ELSE IF values[1].t = "Number"
         THEN {Ok(NumberV(Sqrt(n))) : n \in {m \in {values[1].n} : IsSquare(m)}}
         ELSE {Err(Message("{} is not a number", <<Display(values[1])>>))}

\* (native.function)(arg_count, values): the outcomes of the fn pointer
NativeCall(native, arg_count, values) ==
    CASE native.fnptr = "clock" -> clock(arg_count, values)
      [] native.fnptr = "sqrt" -> sqrt(arg_count, values)

\* NativeFunction { arity, name, function }; the fn pointer is the field fnptr
NativeFunction(arity, name, function) ==
    [arity |-> arity, name |-> name, fnptr |-> function]

\* HashMap::insert
Insert(map, name, value) ==
    [n \in DOMAIN map \cup {name} |-> IF n = name THEN value ELSE map[n]]

\* VM::define_native
define_native(map, arity, name, native) ==
    Insert(map, name, NativeV(NativeFunction(arity, name, native)))

\* The names "clock" and "sqrt"
NameClock == <<99, 108, 111, 99, 107>>
NameSqrt == <<115, 113, 114, 116>>

-----------------------------------------------------------------------------
(* vm.rs: the helpers of VM. *)

Running == result = "Running"

\* VM::frame
frame == Last(frames)

\* the code of the chunk the current frame runs
code == frame.function.chunk.code

\* VM::closure: the closure of the current frame
closure == closures[frame.closure]

\* enum OpCode: the byte of an OpCode is its place in this list, from 0
OpCodes ==
    <<"Add", "Subtract", "Multiply", "Divide", "Negate", "Not",
      "True", "False", "Nil", "Equal", "Greater", "Less", "Constant",
      "DefineGlobal", "GetGlobal", "SetGlobal", "GetLocal", "SetLocal",
      "Jump", "JumpIfFalse", "Loop", "Return", "Pop", "Print",
      "Call", "Closure", "GetUpvalue", "SetUpvalue", "CloseUpvalue">>

\* From<OpCode> for u8, and From<u8> for OpCode (Into)
Byte(op) == (CHOOSE i \in 1..Len(OpCodes) : OpCodes[i] = op) - 1
OpCodeOf(byte) == IF byte < Len(OpCodes) THEN At(OpCodes, byte) ELSE "Unknown"

\* run, lines 121-122: the instruction at ip; ip is incremented past it
instruction == OpCodeOf(At(code, frame.ip))

\* VM::read_byte, for the k-th byte after the opcode (k = 1, 2, ...)
read_byte(k) == At(closure.function.chunk.code, frame.ip + k)

\* VM::read_constant, its index being the k-th byte after the opcode
read_constant(k) == At(closure.function.chunk.constants, read_byte(k))

\* VM::read_short, of the two bytes after the opcode
read_short == read_byte(1) * 256 + read_byte(2)

\* the frames with the current frame's ip set past the n bytes just read
Advance(n) == [frames EXCEPT ![Len(frames)].ip = frame.ip + n]

\* VM::push, VM::pop and VM::peek, on a stack value
push(stk, value) == Append(stk, value)
pop(stk) == SubSeq(stk, 1, Len(stk) - 1)
peek(distance) == stack[Len(stack) - distance]

\* VM::is_falsey
is_falsey(value) ==
    CASE value.t = "Nil" -> TRUE
      [] value.t = "Bool" -> ~value.b
      [] value.t = "Number" -> value.n = 0
      [] value.t = "String" -> Len(value.s) = 0
      [] OTHER -> FALSE

\* VM::reset_stack
\* reset_stack without frames.clear()
reset_stack_keeps_frames ==
    /\ stack' = <<>>
    /\ open_upvalues' = <<>>
    /\ frames' = frames

reset_stack ==
    /\ stack' = <<>>
    /\ open_upvalues' = <<>>
    /\ frames' = <<>>

\* one line of the stack trace runtime_error prints for frame f
TraceLine(f) ==
    LET function == closures[f.closure].function
    IN  Message("[line {}] in {}",
                <<DisplayNumber(At(function.chunk.lines, f.ip - 1)),
                  IF Len(function.name) = 0
                  THEN <<115, 99, 114, 105, 112, 116>>
                  ELSE function.name>>)

\* VM::runtime_error, called when the frames are fr: the message, one line per
\* frame from the innermost one, then reset_stack
\* runtime_error walking the frames without rev()
runtime_error_outermost_first(fr, message) ==
    /\ stderr' = stderr \o <<message>> \o [i \in 1..Len(fr) |-> TraceLine(fr[i])]
    /\ reset_stack

runtime_error(fr, message) ==
    /\ stderr' = stderr \o <<message>>
                        \o [i \in 1..Len(fr) |-> TraceLine(fr[Len(fr) + 1 - i])]
    /\ reset_stack

\* VM::call, called when the frames are fr and the stack is stk.  It returns
\* false after runtime_error and true after pushing the frame; CallOk is the
\* value it returns.
CallOk(heap, c, arg_count) == arg_count = heap[c].function.arity

\* call without the comparison of arg_count with the arity
call_unchecked(fr, stk, heap, c, arg_count) ==
    /\ frames' = Append(fr, [function |-> heap[c].function,
                             ip |-> 0,
                             first_slot |-> Len(stk) - arg_count - 1,
                             closure |-> c])
    /\ stack' = stk
    /\ UNCHANGED <<open_upvalues, stderr>>

call(fr, stk, heap, c, arg_count) ==
    IF ~CallOk(heap, c, arg_count)
    THEN runtime_error(fr, Message("Expected {} arguments but got {}",
                                   <<DisplayNumber(heap[c].function.arity),
                                     DisplayNumber(arg_count)>>))
    ELSE /\ frames' = Append(fr, [function |-> heap[c].function,
                                  ip |-> 0,
                                  first_slot |-> Len(stk) - arg_count - 1,
                                  closure |-> c])
         /\ stack' = stk
         /\ UNCHANGED <<open_upvalues, stderr>>

\* VM::capture_upvalue: the cell of an open upvalue at `local`, else a new one,
\* pushed at the end of the open list.  The result is the cell number with the
\* open list and the heap after the call.
\* capture_upvalue without the search of the open list
capture_upvalue_fresh(open, cells, local) ==
    [cell |-> Len(cells) + 1,
     open |-> Append(open, Len(cells) + 1),
     cells |-> Append(cells, UpvalueNew(local))]

capture_upvalue(open, cells, local) ==
    IF \E i \in 1..Len(open) : cells[open[i]].location = local
    THEN [cell |-> open[CHOOSE i \in 1..Len(open) :
                            /\ cells[open[i]].location = local
                            /\ \A j \in 1..(i - 1) : cells[open[j]].location # local],
          open |-> open, cells |-> cells]
    ELSE [cell |-> Len(cells) + 1,
          open |-> Append(open, Len(cells) + 1),
          cells |-> Append(cells, UpvalueNew(local))]

\* VM::close_upvalues, the loop from index i (0-based) on: a cell at or above
\* `last` takes the value of its stack slot and is replaced in the list by the
\* list's last cell.  ok is false when stack[location] is out of range (a panic).
RECURSIVE close_upvalues_from(_, _, _, _, _)
close_upvalues_from(open, cells, stk, last, i) ==
    IF i >= Len(open) THEN [open |-> open, cells |-> cells, ok |-> TRUE]
    ELSE LET u == At(open, i)
         IN  IF cells[u].location >= last
             THEN IF cells[u].location >= Len(stk)
                  THEN [open |-> open, cells |-> cells, ok |-> FALSE]
                  ELSE LET closed == [cells EXCEPT ![u].closed = At(stk, cells[u].location)]
                           last_upvalue == Last(open)
                           popped == pop(open)
                       IN  close_upvalues_from(
                               IF i # Len(popped)
                               THEN [popped EXCEPT ![i + 1] = last_upvalue]
                               ELSE popped,
                               closed, stk, last, i)
             ELSE close_upvalues_from(open, cells, stk, last, i + 1)

\* close_upvalues with i += 1 after every cell, the closed ones too
RECURSIVE close_upvalues_advancing_from(_, _, _, _, _)
close_upvalues_advancing_from(open, cells, stk, last, i) ==
    IF i >= Len(open) THEN [open |-> open, cells |-> cells, ok |-> TRUE]
    ELSE LET u == At(open, i)
         IN  IF cells[u].location >= last
             THEN IF cells[u].location >= Len(stk)
                  THEN [open |-> open, cells |-> cells, ok |-> FALSE]
                  ELSE LET closed == [cells EXCEPT ![u].closed = At(stk, cells[u].location)]
                           last_upvalue == Last(open)
                           popped == pop(open)
                       IN  close_upvalues_advancing_from(
                               IF i # Len(popped)
                               THEN [popped EXCEPT ![i + 1] = last_upvalue]
                               ELSE popped,
                               closed, stk, last, i + 1)
             ELSE close_upvalues_advancing_from(open, cells, stk, last, i + 1)

close_upvalues_advancing(open, cells, stk, last) ==
    close_upvalues_advancing_from(open, cells, stk, last, 0)

close_upvalues(open, cells, stk, last) == close_upvalues_from(open, cells, stk, last, 0)

-----------------------------------------------------------------------------
(* vm.rs: VM::run, one action per instruction. *)

\* an instruction of n bytes that leaves the stack stk and touches nothing else
Step(n, stk) ==
    /\ frames' = Advance(n)
    /\ stack' = stk
    /\ UNCHANGED <<mode, exit_code, parser, scanner, lines_read, open_upvalues, globals, closures, upvalues,
                   result, stdout, stderr>>

\* an instruction of n bytes that ends in runtime_error and returns RuntimeError
Fail(n, message) ==
    /\ runtime_error(Advance(n), message)
    /\ result' = "RuntimeError"
    /\ UNCHANGED <<mode, exit_code, parser, scanner, lines_read, globals, closures, upvalues, stdout>>

\* a panic: the host process is aborted where it stands
Abort ==
    /\ result' = "Panic"
    /\ UNCHANGED <<mode, exit_code, parser, scanner, lines_read, frames, stack, open_upvalues, globals,
                   closures, upvalues, stdout, stderr>>

\* the operator token a macro is instantiated with, on two f64
NumOp(op, a, b) ==
    CASE op = "-" -> a - b
      [] op = "*" -> a * b
      [] op = "+" -> a + b
      [] op = "/" -> IF b > 0 THEN a \div b ELSE (0 - a) \div (0 - b)

\* a / b has an integer value
NumDivExact(a, b) == b # 0 /\ (IF b > 0 THEN a % b = 0 ELSE a % (0 - b) = 0)

\* the comparison token cmp_op is instantiated with, on two f64
NumCmp(op, a, b) ==
    CASE op = ">" -> a > b
      [] op = "<" -> a < b

\* the comparison token cmp_op is instantiated with, on two Strings
StrCmp(op, a, b) ==
    CASE op = ">" -> StrLess(b, a)
      [] op = "<" -> StrLess(a, b)

\* macro bin_op
bin_op(op) ==
    IF peek(0).t = "Number" /\ peek(1).t = "Number"
    THEN Step(1, push(pop(pop(stack)), NumberV(NumOp(op, peek(1).n, peek(0).n))))
    ELSE Fail(1, Message("Operands must be numbers", <<>>))

\* macro cmp_op
\* cmp_op without the branch of two Strings
cmp_op_numbers_only(op) ==
    IF peek(0).t = "Number" /\ peek(1).t = "Number"
    THEN Step(1, push(pop(pop(stack)), BoolV(NumCmp(op, peek(1).n, peek(0).n))))
    ELSE Fail(1, Message("Operands must be numbers", <<>>))

cmp_op(op) ==
    IF peek(0).t = "Number" /\ peek(1).t = "Number"
    THEN Step(1, push(pop(pop(stack)), BoolV(NumCmp(op, peek(1).n, peek(0).n))))
    ELSE IF peek(0).t = "String" /\ peek(1).t = "String"
    THEN Step(1, push(pop(pop(stack)), BoolV(StrCmp(op, peek(1).s, peek(0).s))))
    ELSE Fail(1, Message("Operands must be numbers", <<>>))

Subtract ==
    /\ Running /\ instruction = "Subtract"
    /\ bin_op("-")

Multiply ==
    /\ Running /\ instruction = "Multiply"
    /\ bin_op("*")

Divide ==
    /\ Running /\ instruction = "Divide"
    /\ (peek(0).t = "Number" /\ peek(1).t = "Number")
            => NumDivExact(peek(1).n, peek(0).n)
    /\ bin_op("/")

Add ==
    /\ Running /\ instruction = "Add"
    /\ IF peek(1).t = "String"
       THEN Step(1, push(pop(pop(stack)), StringV(peek(1).s \o Display(peek(0)))))
       ELSE bin_op("+")

True ==
    /\ Running /\ instruction = "True"
    /\ Step(1, push(stack, BoolV(TRUE)))

False ==
    /\ Running /\ instruction = "False"
    /\ Step(1, push(stack, BoolV(FALSE)))

Nil ==
    /\ Running /\ instruction = "Nil"
    /\ Step(1, push(stack, NilV))

Greater ==
    /\ Running /\ instruction = "Greater"
    /\ cmp_op(">")

Less ==
    /\ Running /\ instruction = "Less"
    /\ cmp_op("<")

Equal ==
    /\ Running /\ instruction = "Equal"
    /\ Step(1, push(pop(pop(stack)), BoolV(ValueEq(peek(1), peek(0)))))

Constant ==
    /\ Running /\ instruction = "Constant"
    /\ Step(2, push(stack, read_constant(1)))

Negate ==
    /\ Running /\ instruction = "Negate"
    /\ IF peek(0).t = "Number"
       THEN Step(1, push(pop(stack), NumberV(0 - peek(0).n)))
       ELSE Fail(1, Message("Operand must be a number", <<>>))

Not ==
    /\ Running /\ instruction = "Not"
    /\ Step(1, push(pop(stack), BoolV(is_falsey(peek(0)))))

DefineGlobal ==
    /\ Running /\ instruction = "DefineGlobal"
    /\ IF read_constant(1).t = "String"
       THEN /\ globals' = Insert(globals, read_constant(1).s, peek(0))
            /\ stack' = pop(stack)
       ELSE UNCHANGED <<globals, stack>>
    /\ frames' = Advance(2)
    /\ UNCHANGED <<mode, exit_code, parser, scanner, lines_read, open_upvalues, closures, upvalues, result,
                   stdout, stderr>>

GetGlobal ==
    /\ Running /\ instruction = "GetGlobal"
    /\ IF read_constant(1).t = "String"
       THEN IF read_constant(1).s \in DOMAIN globals
            THEN Step(2, push(stack, globals[read_constant(1).s]))
            ELSE Fail(2, Message("Undefined variable '{}'", <<read_constant(1).s>>))
       ELSE Step(2, stack)

\* SetGlobal with HashMap::insert in place of get_mut
SetGlobal_inserts ==
    /\ Running /\ instruction = "SetGlobal"
    /\ IF read_constant(1).t = "String"
       THEN /\ globals' = Insert(globals, read_constant(1).s, peek(0))
            /\ frames' = Advance(2)
            /\ UNCHANGED <<mode, exit_code, parser, scanner, lines_read, stack, open_upvalues, closures,
                           upvalues, result, stdout, stderr>>
       ELSE Step(2, stack)

SetGlobal ==
    /\ Running /\ instruction = "SetGlobal"
    /\ IF read_constant(1).t = "String"
       THEN IF read_constant(1).s \in DOMAIN globals
            THEN /\ globals' = [globals EXCEPT ![read_constant(1).s] = peek(0)]
                 /\ frames' = Advance(2)
                 /\ UNCHANGED <<mode, exit_code, parser, scanner, lines_read, stack, open_upvalues, closures,
                                upvalues, result, stdout, stderr>>
            ELSE Fail(2, Message("Undefined variable '{}'", <<read_constant(1).s>>))
       ELSE Step(2, stack)

GetLocal ==
    /\ Running /\ instruction = "GetLocal"
    /\ Step(2, push(stack, At(stack, frame.first_slot + read_byte(1))))

SetLocal ==
    /\ Running /\ instruction = "SetLocal"
    /\ Step(2, [stack EXCEPT ![frame.first_slot + read_byte(1) + 1] = peek(0)])

Jump ==
    /\ Running /\ instruction = "Jump"
    /\ Step(3 + read_short, stack)

\* JumpIfFalse that pops the condition when it jumps
JumpIfFalse_popping ==
    /\ Running /\ instruction = "JumpIfFalse"
    /\ IF is_falsey(peek(0))
       THEN Step(3 + read_short, pop(stack))
       ELSE Step(3, stack)

JumpIfFalse ==
    /\ Running /\ instruction = "JumpIfFalse"
    /\ IF is_falsey(peek(0))
       THEN Step(3 + read_short, stack)
       ELSE Step(3, stack)

Loop ==
    /\ Running /\ instruction = "Loop"
    /\ Step(3 - read_short, stack)

\* run, Closure: the upvalues of the new closure from the k-th (is_local, index)
\* pair on, n pairs in all; ups are the cells pushed so far
RECURSIVE capture_all(_, _, _, _, _)
capture_all(k, n, ups, open, cells) ==
    IF k >= n THEN [ups |-> ups, open |-> open, cells |-> cells]
    ELSE LET is_local == read_byte(2 + 2 * k)
             index == read_byte(3 + 2 * k)
         IN  IF is_local # 0
             THEN LET r == capture_upvalue(open, cells, frame.first_slot + index)
                  IN  capture_all(k + 1, n, Append(ups, r.cell), r.open, r.cells)
             ELSE capture_all(k + 1, n, Append(ups, At(closure.upvalues, index)),
                              open, cells)

\* VM::call_value on a Native
call_native(arg_count, native) ==
    \E res \in NativeCall(native, arg_count,
                          SubSeq(stack, Len(stack) - arg_count + 1, Len(stack))) :
        CASE res.t = "Panic" -> Abort
          [] res.t = "Err" -> Fail(2, res.message)
          [] res.t = "Ok" ->
                Step(2, push(Truncate(stack, Len(stack) - arg_count - 1), res.value))

\* run, Call, with VM::call_value
Call ==
    /\ Running /\ instruction = "Call"
    /\ LET arg_count == read_byte(1)
           callee == peek(arg_count)
       IN  CASE callee.t = "Closure" ->
                    /\ Len(frames) < MaxDepth
                    /\ call(Advance(2), stack, closures, callee.c, arg_count)
                    /\ result' = IF CallOk(closures, callee.c, arg_count)
                                 THEN "Running" ELSE "RuntimeError"
                    /\ UNCHANGED <<mode, exit_code, parser, scanner, lines_read, globals, closures, upvalues,
                                   stdout>>
             [] callee.t = "Native" -> call_native(arg_count, callee.native)
             [] OTHER -> Fail(2, Message("Can only call functions and classes.", <<>>))

\* Closure taking every pair for a local of the current frame
RECURSIVE capture_all_locals(_, _, _, _, _)
capture_all_locals(k, n, ups, open, cells) ==
    IF k >= n THEN [ups |-> ups, open |-> open, cells |-> cells]
    ELSE LET r == capture_upvalue(open, cells, frame.first_slot + read_byte(3 + 2 * k))
         IN  capture_all_locals(k + 1, n, Append(ups, r.cell), r.open, r.cells)

Closure_locals ==
    /\ Running /\ instruction = "Closure"
    /\ LET function == read_constant(1)
       IN  IF function.t = "Function"
           THEN LET n == function.f.upvalue_count
                    r == capture_all_locals(0, n, <<>>, open_upvalues, upvalues)
                IN  /\ closures' = Append(closures,
                                          [function |-> function.f, upvalues |-> r.ups])
                    /\ stack' = push(stack, ClosureV(Len(closures) + 1))
                    /\ open_upvalues' = r.open
                    /\ upvalues' = r.cells
                    /\ frames' = Advance(2 + 2 * n)
                    /\ UNCHANGED <<mode, exit_code, parser, scanner, lines_read, globals, result,
                                   stdout, stderr>>
           ELSE Step(2, stack)

Closure ==
    /\ Running /\ instruction = "Closure"
    /\ LET function == read_constant(1)
       IN  IF function.t = "Function"
           THEN LET n == function.f.upvalue_count
                    r == capture_all(0, n, <<>>, open_upvalues, upvalues)
                IN  /\ closures' = Append(closures,
                                          [function |-> function.f, upvalues |-> r.ups])
                    /\ stack' = push(stack, ClosureV(Len(closures) + 1))
                    /\ open_upvalues' = r.open
                    /\ upvalues' = r.cells
                    /\ frames' = Advance(2 + 2 * n)
                    /\ UNCHANGED <<mode, exit_code, parser, scanner, lines_read, globals, result, stdout, stderr>>
           ELSE Step(2, stack)

GetUpvalue ==
    /\ Running /\ instruction = "GetUpvalue"
    /\ LET upvalue == At(closures[frame.closure].upvalues, read_byte(1))
       IN  IF upvalues[upvalue].closed # None
           THEN Step(2, push(stack, UpvalueV(upvalue)))
           ELSE Step(2, push(stack, At(stack, upvalues[upvalue].location)))

SetUpvalue ==
    /\ Running /\ instruction = "SetUpvalue"
    /\ LET upvalue == At(closure.upvalues, read_byte(1))
           location == upvalues[upvalue].location
           value == peek(0)
       IN  IF upvalues[upvalue].closed # None
           THEN /\ upvalues' = [upvalues EXCEPT ![upvalue].closed = value]
                /\ frames' = Advance(2)
                /\ UNCHANGED <<mode, exit_code, parser, scanner, lines_read, stack, open_upvalues, globals,
                               closures, result, stdout, stderr>>
           ELSE Step(2, [stack EXCEPT ![location + 1] = value])

\* CloseUpvalue as a Pop: the slot goes, its cell stays open
CloseUpvalue_pops ==
    /\ Running /\ instruction = "CloseUpvalue"
    /\ Step(1, pop(stack))

CloseUpvalue ==
    /\ Running /\ instruction = "CloseUpvalue"
    /\ LET r == close_upvalues(open_upvalues, upvalues, stack, Len(stack) - 1)
       IN  IF ~r.ok THEN Abort
           ELSE /\ open_upvalues' = r.open
                /\ upvalues' = r.cells
                /\ stack' = pop(stack)
                /\ frames' = Advance(1)
                /\ UNCHANGED <<mode, exit_code, parser, scanner, lines_read, globals, closures, result,
                               stdout, stderr>>

\* Return without stack.truncate(slot)
Return_untruncated ==
    /\ Running /\ instruction = "Return"
    /\ LET value == peek(0)
           popped == pop(stack)
           slot == frame.first_slot
           r == close_upvalues(open_upvalues, upvalues, popped, slot)
       IN  IF ~r.ok THEN Abort
           ELSE /\ open_upvalues' = r.open
                /\ upvalues' = r.cells
                /\ frames' = pop(frames)
                /\ IF Len(frames) = 1
                   THEN /\ stack' = pop(popped)
                        /\ result' = "Ok"
                   ELSE /\ stack' = push(popped, value)
                        /\ UNCHANGED result
                /\ UNCHANGED <<mode, exit_code, parser, scanner, lines_read, globals, closures,
                               stdout, stderr>>

\* Return that leaves the closure of the script on the stack
Return_keeping_script ==
    /\ Running /\ instruction = "Return"
    /\ LET value == peek(0)
           popped == pop(stack)
           slot == frame.first_slot
           r == close_upvalues(open_upvalues, upvalues, popped, slot)
       IN  IF ~r.ok THEN Abort
           ELSE /\ open_upvalues' = r.open
                /\ upvalues' = r.cells
                /\ frames' = pop(frames)
                /\ IF Len(frames) = 1
                   THEN /\ stack' = popped
                        /\ result' = "Ok"
                   ELSE /\ stack' = push(Truncate(popped, slot), value)
                        /\ UNCHANGED result
                /\ UNCHANGED <<mode, exit_code, parser, scanner, lines_read, globals, closures, stdout, stderr>>

Return ==
    /\ Running /\ instruction = "Return"
    /\ LET value == peek(0)
           popped == pop(stack)
           slot == frame.first_slot
           r == close_upvalues(open_upvalues, upvalues, popped, slot)
       IN  IF ~r.ok THEN Abort
           ELSE /\ open_upvalues' = r.open
                /\ upvalues' = r.cells
                /\ frames' = pop(frames)
                /\ IF Len(frames) = 1
                   THEN /\ stack' = pop(popped)
                        /\ result' = "Ok"
                   ELSE /\ stack' = push(Truncate(popped, slot), value)
                        /\ UNCHANGED result
                /\ UNCHANGED <<mode, exit_code, parser, scanner, lines_read, globals, closures, stdout, stderr>>

Pop ==
    /\ Running /\ instruction = "Pop"
    /\ Step(1, pop(stack))

OpPrint ==
    /\ Running /\ instruction = "Print"
    /\ stdout' = Append(stdout, Display(peek(0)))
    /\ stack' = pop(stack)
    /\ frames' = Advance(1)
    /\ UNCHANGED <<mode, exit_code, parser, scanner, lines_read, open_upvalues, globals, closures, upvalues,
                   result, stderr>>

-----------------------------------------------------------------------------
(* compiler/mod.rs: the code the compiler emits for the global-scope subset *)
(* of the language.  A source is given parsed: a sequence of statements     *)
(* whose expressions are trees; every token is on line 1.  Declarations at  *)
(* scope depth 0 only, so every name is a global.                           *)

\* Chunk::default
EmptyChunk == [code |-> <<>>, constants |-> <<>>, lines |-> <<>>]

\* Parser::emit_byte (Chunk::write with previous.line)
emit_byte(ch, byte) ==
    [ch EXCEPT !.code = Append(@, byte), !.lines = Append(@, 1)]

\* Parser::emit_bytes
emit_bytes(ch, byte1, byte2) == emit_byte(emit_byte(ch, byte1), byte2)

\* Chunk::add_constant; the index it returns is the length before the push
add_constant(ch, value) == [ch EXCEPT !.constants = Append(@, value)]

\* Parser::emit_constant (make_constant, then Constant and the index)
emit_constant(ch, value) ==
    emit_bytes(add_constant(ch, value), Byte("Constant"), Len(ch.constants))

\* Parser::emit_return
emit_return(ch) == emit_bytes(ch, Byte("Nil"), Byte("Return"))

\* Parser::emit_jump: the instruction and two placeholder bytes; the offset it
\* returns is JumpOffset, the index of the first placeholder
emit_jump(ch, instr) == emit_byte(emit_byte(emit_byte(ch, instr), 255), 255)
JumpOffset(ch) == Len(ch.code) + 1

\* Parser::patch_jump.  `jump as u16 > u16::MAX` is false for every jump, so no
\* error is ever reported and the two low bytes are written.
patch_jump(ch, offset) ==
    LET jump == Len(ch.code) - offset - 2
    IN  [ch EXCEPT !.code = [@ EXCEPT ![offset + 1] = (jump \div 256) % 256,
                                      ![offset + 2] = jump % 256]]

\* Parser::emit_loop
emit_loop(ch, loop_start) ==
    LET offset == Len(ch.code) + 1 - loop_start + 2
    IN  emit_byte(emit_byte(emit_byte(ch, Byte("Loop")), (offset \div 256) % 256),
                  offset % 256)

\* Parser::binary: the opcodes of an operator token
binary(ch, op) ==
    CASE op = "!=" -> emit_bytes(ch, Byte("Equal"), Byte("Not"))
      [] op = "==" -> emit_byte(ch, Byte("Equal"))
      [] op = ">" -> emit_byte(ch, Byte("Greater"))
      [] op = ">=" -> emit_bytes(ch, Byte("Less"), Byte("Not"))
      [] op = "<" -> emit_byte(ch, Byte("Less"))
      [] op = "<=" -> emit_bytes(ch, Byte("Greater"), Byte("Not"))
      [] op = "+" -> emit_byte(ch, Byte("Add"))
      [] op = "-" -> emit_byte(ch, Byte("Subtract"))
      [] op = "*" -> emit_byte(ch, Byte("Multiply"))
      [] op = "/" -> emit_byte(ch, Byte("Divide"))

\* Parser::unary: the opcode of an operator token
unary(ch, op) ==
    CASE op = "-" -> emit_byte(ch, Byte("Negate"))
      [] op = "!" -> emit_byte(ch, Byte("Not"))

\* Parser::expression on a tree: literal, number, string, named_variable (a
\* global, read or assigned), unary, binary, call with argument_list
RECURSIVE expression(_, _)
RECURSIVE argument_list(_, _, _)
expression(ch, e) ==
    CASE e.k = "nil" -> emit_byte(ch, Byte("Nil"))
      [] e.k = "true" -> emit_byte(ch, Byte("True"))
      [] e.k = "false" -> emit_byte(ch, Byte("False"))
      [] e.k = "number" -> emit_constant(ch, NumberV(e.n))
      [] e.k = "string" -> emit_constant(ch, StringV(e.s))
      [] e.k = "variable" ->
            emit_bytes(add_constant(ch, StringV(e.name)), Byte("GetGlobal"),
                       Len(ch.constants))
      [] e.k = "assign" ->
            emit_bytes(expression(add_constant(ch, StringV(e.name)), e.e),
                       Byte("SetGlobal"), Len(ch.constants))
      [] e.k = "unary" -> unary(expression(ch, e.e), e.op)
      [] e.k = "binary" -> binary(expression(expression(ch, e.l), e.r), e.op)
      [] e.k = "call" ->
            emit_bytes(argument_list(expression(ch, e.callee), e.args, 1),
                       Byte("Call"), Len(e.args))

argument_list(ch, args, i) ==
    IF i > Len(args) THEN ch
    ELSE argument_list(expression(ch, args[i]), args, i + 1)

\* Parser::declaration / Parser::statement on a tree: print_statement,
\* expression_statement, a block that declares nothing, if_statement,
\* while_statement, var_declaration and fun_declaration of a global.  A
\* function is compiled by its own Compiler: arity parameters, a body of
\* statements that name no local, emit_return, then Closure in the enclosing
\* chunk with no upvalue pair.
RECURSIVE declaration(_, _)
RECURSIVE block(_, _, _)
declaration(ch, s) ==
    CASE s.k = "print" -> emit_byte(expression(ch, s.e), Byte("Print"))
      [] s.k = "block" -> block(ch, s.body, 1)
      [] s.k = "if" ->
            LET cond == expression(ch, s.e)
                then_jump == JumpOffset(cond)
                then_branch == declaration(emit_byte(emit_jump(cond, Byte("JumpIfFalse")), Byte("Pop")),
                                           s.then)
                else_jump == JumpOffset(then_branch)
                patched == emit_byte(patch_jump(emit_jump(then_branch, Byte("Jump")), then_jump),
                                     Byte("Pop"))
                else_branch == IF s.else = None THEN patched
                               ELSE declaration(patched, s.else)
            IN  patch_jump(else_branch, else_jump)
      [] s.k = "while" ->
            LET loop_start == Len(ch.code)
                cond == expression(ch, s.e)
                exit_jump == JumpOffset(cond)
                body == declaration(emit_byte(emit_jump(cond, Byte("JumpIfFalse")), Byte("Pop")),
                                    s.body)
            IN  emit_byte(patch_jump(emit_loop(body, loop_start), exit_jump), Byte("Pop"))
      [] s.k = "expression" -> emit_byte(expression(ch, s.e), Byte("Pop"))
      [] s.k = "var" ->
            emit_bytes(IF s.e = None
                       THEN emit_byte(add_constant(ch, StringV(s.name)), Byte("Nil"))
                       ELSE expression(add_constant(ch, StringV(s.name)), s.e),
                       Byte("DefineGlobal"), Len(ch.constants))
      [] s.k = "fun" ->
            LET inner == emit_return(block(EmptyChunk, s.body, 1))
                function == [arity |-> s.arity, name |-> s.name, chunk |-> inner,
                             upvalue_count |-> 0]
                named == add_constant(ch, StringV(s.name))
            IN  emit_bytes(emit_bytes(add_constant(named, FunctionV(function)),
                                      Byte("Closure"), Len(named.constants)),
                           Byte("DefineGlobal"), Len(ch.constants))
      [] s.k = "compiled" ->
            LET named == add_constant(ch, StringV(s.function.name))
            IN  emit_bytes(emit_bytes(add_constant(named, FunctionV(s.function)),
                                      Byte("Closure"), Len(named.constants)),
                           Byte("DefineGlobal"), Len(ch.constants))

block(ch, body, i) ==
    IF i > Len(body) THEN ch
    ELSE block(declaration(ch, body[i]), body, i + 1)

\* Parser::compile of an error-free source: the declarations, then
\* end_compiler's emit_return; the script function has no name
compile(source) ==
    [arity |-> 0, name |-> <<>>,
     chunk |-> emit_return(block(EmptyChunk, source, 1)),
     upvalue_count |-> 0]

-----------------------------------------------------------------------------
(* The sources the driver is given. *)

\* Parameters of a declared function, and arguments of a call.
MaxArity == 2
MaxArgs == 2

\* expression trees
ENil == [k |-> "nil"]
ETrue == [k |-> "true"]
EFalse == [k |-> "false"]
ENumber(n) == [k |-> "number", n |-> n]
EString(s) == [k |-> "string", s |-> s]
EVariable(name) == [k |-> "variable", name |-> name]
EAssign(name, e) == [k |-> "assign", name |-> name, e |-> e]
EUnary(op, e) == [k |-> "unary", op |-> op, e |-> e]
EBinary(l, op, r) == [k |-> "binary", op |-> op, l |-> l, r |-> r]
ECall(callee, args) == [k |-> "call", callee |-> callee, args |-> args]

\* statement trees
SPrint(e) == [k |-> "print", e |-> e]
SExpression(e) == [k |-> "expression", e |-> e]
SBlock(body) == [k |-> "block", body |-> body]
SIf(e, then, else) == [k |-> "if", e |-> e, then |-> then, else |-> else]
SWhile(e, body) == [k |-> "while", e |-> e, body |-> body]
SVar(name, e) == [k |-> "var", name |-> name, e |-> e]
SFun(name, arity, body) == [k |-> "fun", name |-> name, arity |-> arity, body |-> body]
SCompiled(function) == [k |-> "compiled", function |-> function]

\* the identifiers f, x, i, c and the strings "a", "b"
NameF == <<102>>
NameX == <<120>>
NameI == <<105>>
NameC == <<99>>
StrA == <<97>>
StrB == <<98>>

\* operands of the operator programs: nil true false 0 1 4 "" "a" "b" f clock
Operands ==
    {ENil, ETrue, EFalse, ENumber(0), ENumber(1), ENumber(4),
     EString(<<>>), EString(StrA), EString(StrB),
     EVariable(NameF), EVariable(NameClock)}

BinaryOps == {"!=", "==", ">", ">=", "<", "<=", "+", "-", "*", "/"}
UnaryOps == {"-", "!"}

\* fun f() {} print L OP R;
BinarySources ==
    {<<SFun(NameF, 0, <<>>), SPrint(EBinary(l, op, r))>> :
        l \in Operands, r \in Operands, op \in BinaryOps}

\* fun f() {} print OP E;
UnarySources ==
    {<<SFun(NameF, 0, <<>>), SPrint(EUnary(op, e))>> : e \in Operands, op \in UnaryOps}

\* fun f() {} if (E) print 1; else print 4;
IfSources ==
    {<<SFun(NameF, 0, <<>>),
       SIf(e, SPrint(ENumber(1)), SPrint(ENumber(4)))>> : e \in Operands}

\* callees and arguments of the call programs
Callees ==
    {EVariable(NameF), EVariable(NameClock), EVariable(NameSqrt),
     ENil, ENumber(4), EString(StrA)}
Arguments == {ENil, ENumber(4), EString(StrA)}
ArgumentLists == UNION {[1..n -> Arguments] : n \in 0..MaxArgs}

\* fun f(p1, .., pARITY) {} print CALLEE(ARGS);
CallSources ==
    {<<SFun(NameF, arity, <<>>), SPrint(ECall(callee, args))>> :
        arity \in 0..MaxArity, callee \in Callees, args \in ArgumentLists}

\* programs on the global x
GlobalSources ==
    {<<SVar(NameX, ENumber(1)), SPrint(EAssign(NameX, ENumber(4))),
       SPrint(EVariable(NameX))>>,
     <<SVar(NameX, None), SPrint(EVariable(NameX))>>,
     <<SPrint(EAssign(NameX, ENumber(4))), SPrint(EVariable(NameX))>>,
     <<SPrint(EVariable(NameX))>>}

\* fun f() { f(); } f();
RecursionSource ==
    <<SFun(NameF, 0, <<SExpression(ECall(EVariable(NameF), <<>>))>>),
      SExpression(ECall(EVariable(NameF), <<>>))>>

\* var i = 0; while (i < 4) { if (i == 1) print "a"; i = i + 1; }
WhileSource ==
    <<SVar(NameI, ENumber(0)),
      SWhile(EBinary(EVariable(NameI), "<", ENumber(4)),
             SBlock(<<SIf(EBinary(EVariable(NameI), "==", ENumber(1)),
                          SPrint(EString(StrA)), None),
                      SExpression(EAssign(NameI,
                          EBinary(EVariable(NameI), "+", ENumber(1))))>>))>>

\* every token of a hand-compiled chunk is on line 1
Lines1(bytes) == [i \in 1..Len(bytes) |-> 1]

\* for (var i = 0; i < 2; i = i + 1) print i;
\* i is the local of slot 1 of the script (for_statement opens a scope).
ForProgram ==
    LET bytes == <<Byte("Constant"), 0, Byte("GetLocal"), 1, Byte("Constant"), 1, Byte("Less"),
                   Byte("JumpIfFalse"), 0, 21, Byte("Pop"), Byte("Jump"), 0, 11,
                   Byte("GetLocal"), 1, Byte("Constant"), 2, Byte("Add"), Byte("SetLocal"), 1, Byte("Pop"),
                   Byte("Loop"), 0, 23,
                   Byte("GetLocal"), 1, Byte("Print"), Byte("Loop"), 0, 17,
                   Byte("Pop"), Byte("Pop"), Byte("Nil"), Byte("Return")>>
    IN  Function(0, <<>>, bytes, <<NumberV(0), NumberV(2), NumberV(1)>>,
                 Lines1(bytes), 0)

\* the function  fun NAME() { n = n + 1; return n; }  whose n is upvalue 0
Increment(name) ==
    LET bytes == <<Byte("GetUpvalue"), 0, Byte("Constant"), 0, Byte("Add"), Byte("SetUpvalue"), 0, Byte("Pop"),
                   Byte("GetUpvalue"), 0, Byte("Return"), Byte("Nil"), Byte("Return")>>
    IN  Function(0, name, bytes, <<NumberV(1)>>, Lines1(bytes), 1)

\* { var n = 0; fun inc() { n = n + 1; return n; } print inc(); print inc(); }
\* n is the local of slot 1 and inc the local of slot 2 of the script; the
\* block's end pops inc and closes n.
BlockProgram ==
    LET bytes == <<Byte("Constant"), 0, Byte("Closure"), 1, 1, 1,
                   Byte("GetLocal"), 2, Byte("Call"), 0, Byte("Print"),
                   Byte("GetLocal"), 2, Byte("Call"), 0, Byte("Print"),
                   Byte("Pop"), Byte("CloseUpvalue"), Byte("Nil"), Byte("Return")>>
    IN  Function(0, <<>>, bytes,
                 <<NumberV(0), FunctionV(Increment(<<105, 110, 99>>))>>,
                 Lines1(bytes), 0)

\* { var n = 0; fun inc() { n = n + 1; return n; } print inc(nil); }
\* the call fails while the upvalue of n is open
BlockErrorProgram ==
    LET bytes == <<Byte("Constant"), 0, Byte("Closure"), 1, 1, 1,
                   Byte("GetLocal"), 2, Byte("Nil"), Byte("Call"), 1, Byte("Print"),
                   Byte("Pop"), Byte("CloseUpvalue"), Byte("Nil"), Byte("Return")>>
    IN  Function(0, <<>>, bytes,
                 <<NumberV(0), FunctionV(Increment(<<105, 110, 99>>))>>,
                 Lines1(bytes), 0)

\* var g; var s;
\* { var x = 10; fun get() { return x; } fun set(v) { x = v; }
\*   set(42); print get(); g = get; s = set; }
\* s(7); print g();
\* get and set capture the local x of the block (slot 1); get is slot 2, set slot 3
SharedProgram ==
    LET get_bytes == <<Byte("GetUpvalue"), 0, Byte("Return"), Byte("Nil"), Byte("Return")>>
        get == Function(0, <<103, 101, 116>>, get_bytes, <<>>, Lines1(get_bytes), 1)
        set_bytes == <<Byte("GetLocal"), 1, Byte("SetUpvalue"), 0, Byte("Pop"),
                       Byte("Nil"), Byte("Return")>>
        set == Function(1, <<115, 101, 116>>, set_bytes, <<>>, Lines1(set_bytes), 1)
        bytes == <<Byte("Nil"), Byte("DefineGlobal"), 0,
                   Byte("Nil"), Byte("DefineGlobal"), 1,
                   Byte("Constant"), 2,
                   Byte("Closure"), 3, 1, 1,
                   Byte("Closure"), 4, 1, 1,
                   Byte("GetLocal"), 3, Byte("Constant"), 5, Byte("Call"), 1, Byte("Pop"),
                   Byte("GetLocal"), 2, Byte("Call"), 0, Byte("Print"),
                   Byte("GetLocal"), 2, Byte("SetGlobal"), 6, Byte("Pop"),
                   Byte("GetLocal"), 3, Byte("SetGlobal"), 7, Byte("Pop"),
                   Byte("Pop"), Byte("Pop"), Byte("CloseUpvalue"),
                   Byte("GetGlobal"), 8, Byte("Constant"), 9, Byte("Call"), 1, Byte("Pop"),
                   Byte("GetGlobal"), 10, Byte("Call"), 0, Byte("Print"),
                   Byte("Nil"), Byte("Return")>>
    IN  Function(0, <<>>, bytes,
                 <<StringV(<<103>>), StringV(<<115>>), NumberV(10), FunctionV(get),
                   FunctionV(set), NumberV(42), StringV(<<103>>), StringV(<<115>>),
                   StringV(<<115>>), NumberV(7), StringV(<<103>>)>>,
                 Lines1(bytes), 0)

\* { var a = 1; var b = 2; fun f() { fun g() { print a + b; } g(); } f(); }
\* a, b and f are the locals of slots 1, 2 and 3 of the script; f captures a
\* and b as locals of the script, g captures them as upvalues 0 and 1 of f;
\* the block's end pops f and closes b and a.
CaptureProgram ==
    LET g_bytes == <<Byte("GetUpvalue"), 0, Byte("GetUpvalue"), 1, Byte("Add"), Byte("Print"),
                     Byte("Nil"), Byte("Return")>>
        g == Function(0, <<103>>, g_bytes, <<>>, Lines1(g_bytes), 2)
        f_bytes == <<Byte("Closure"), 0, 0, 0, 0, 1,
                     Byte("GetLocal"), 1, Byte("Call"), 0, Byte("Pop"),
                     Byte("Nil"), Byte("Return")>>
        f == Function(0, NameF, f_bytes, <<FunctionV(g)>>, Lines1(f_bytes), 2)
        bytes == <<Byte("Constant"), 0, Byte("Constant"), 1,
                   Byte("Closure"), 2, 1, 1, 1, 2,
                   Byte("GetLocal"), 3, Byte("Call"), 0, Byte("Pop"),
                   Byte("Pop"), Byte("CloseUpvalue"), Byte("CloseUpvalue"),
                   Byte("Nil"), Byte("Return")>>
    IN  Function(0, <<>>, bytes, <<NumberV(1), NumberV(2), FunctionV(f)>>,
                 Lines1(bytes), 0)

\* fun a() { return b(); }          (line 1)
\* fun b() { return 1 + "x"; }      (line 2)
\* a();                             (line 3)
TraceProgram ==
    LET a_bytes == <<Byte("GetGlobal"), 0, Byte("Call"), 0, Byte("Return"),
                     Byte("Nil"), Byte("Return")>>
        a == Function(0, StrA, a_bytes, <<StringV(StrB)>>, Lines1(a_bytes), 0)
        b_bytes == <<Byte("Constant"), 0, Byte("Constant"), 1, Byte("Add"), Byte("Return"),
                     Byte("Nil"), Byte("Return")>>
        b == Function(0, StrB, b_bytes, <<NumberV(1), StringV(<<120>>)>>,
                      [i \in 1..Len(b_bytes) |-> 2], 0)
        bytes == <<Byte("Closure"), 1, Byte("DefineGlobal"), 0,
                   Byte("Closure"), 3, Byte("DefineGlobal"), 2,
                   Byte("GetGlobal"), 4, Byte("Call"), 0, Byte("Pop"),
                   Byte("Nil"), Byte("Return")>>
    IN  Function(0, <<>>, bytes,
                 <<StringV(StrA), FunctionV(a), StringV(StrB), FunctionV(b), StringV(StrA)>>,
                 <<1, 1, 1, 1, 2, 2, 2, 2, 3, 3, 3, 3, 3, 3, 3>>, 0)

\* fun makeCounter() { var n = 0; fun inc() { n = n + 1; return n; } return inc; }
MakeCounter ==
    LET bytes == <<Byte("Constant"), 0, Byte("Closure"), 1, 1, 1,
                   Byte("GetLocal"), 2, Byte("Return"), Byte("Nil"), Byte("Return")>>
    IN  Function(0, <<109, 97, 107, 101, 67, 111, 117, 110, 116, 101, 114>>, bytes,
                 <<NumberV(0), FunctionV(Increment(<<105, 110, 99>>))>>,
                 Lines1(bytes), 0)

\* fun makeCounter() { .. }
\* var c = makeCounter(); print c(); print c(); print c();
CounterSource ==
    <<SCompiled(MakeCounter),
      SVar(NameC, ECall(EVariable(MakeCounter.name), <<>>)),
      SPrint(ECall(EVariable(NameC), <<>>)),
      SPrint(ECall(EVariable(NameC), <<>>)),
      SPrint(ECall(EVariable(NameC), <<>>))>>

\* the sources of run_file that compile
FileSources ==
    BinarySources \cup UnarySources \cup IfSources \cup CallSources
        \cup GlobalSources \cup {RecursionSource, WhileSource, CounterSource}

\* what Parser::compile returns for the sources of run_file
FileInputs ==
    {None, ForProgram, BlockProgram, BlockErrorProgram, SharedProgram, TraceProgram,
     CaptureProgram}
        \cup {compile(source) : source \in FileSources}

\* the lines of the REPL that compile:
\*   var x = 1;   print x = 4;   print x;   print -nil;   fun f() {} print f;
ReplSources ==
    {<<SVar(NameX, ENumber(1))>>,
     <<SPrint(EAssign(NameX, ENumber(4)))>>,
     <<SPrint(EVariable(NameX))>>,
     <<SPrint(EUnary("-", ENil))>>,
     <<SFun(NameF, 0, <<>>), SPrint(EVariable(NameF))>>}

\* what Parser::compile returns for the lines of the REPL
ReplInputs == {None} \cup {compile(source) : source \in ReplSources}

-----------------------------------------------------------------------------
(* main.rs and VM::new, VM::interpret. *)

\* main: the REPL without an argument, run_file with one, else the usage exit
main(argc) ==
    IF argc = 1 THEN "repl" ELSE IF argc = 2 THEN "file" ELSE "usage"

\* the start of the process, and VM::new in repl and run_file
Init ==
    /\ \E argc \in 1..MaxArgv : mode = main(argc)
    /\ exit_code = <<>>
    /\ parser = None
    /\ scanner = None
    /\ lines_read = 0
    /\ frames = <<>>
    /\ stack = <<>>
    /\ open_upvalues = <<>>
    /\ globals = define_native(define_native(<<>>, 0, NameClock, "clock"),
                               1, NameSqrt, "sqrt")
    /\ closures = <<>>
    /\ upvalues = <<>>
    /\ result = "New"
    /\ stdout = <<>>
    /\ stderr = <<>>

\* interpret making a VM of its own (VM::new) for a source that does not compile
Interpret_renewing ==
    /\ mode \in {"file", "repl"}
    /\ exit_code = <<>>
    /\ result \notin {"Running", "Panic"}
    /\ lines_read < (IF mode = "file" THEN 1 ELSE MaxLines)
    /\ lines_read' = lines_read + 1
    /\ \E compiled \in (IF mode = "file" THEN FileInputs ELSE ReplInputs) :
          IF compiled = None
          THEN /\ result' = "CompileError"
               /\ globals' = define_native(define_native(<<>>, 0, NameClock, "clock"),
                                           1, NameSqrt, "sqrt")
               /\ UNCHANGED <<mode, exit_code, parser, scanner, frames, stack, open_upvalues, closures,
                              upvalues, stdout, stderr>>
          ELSE LET heap == Append(closures, ClosureNew(compiled))
                   c == Len(heap)
               IN  /\ closures' = heap
                   /\ call(frames, push(stack, ClosureV(c)), heap, c, 0)
                   /\ result' = IF CallOk(heap, c, 0) THEN "Running" ELSE "Panic"
                   /\ UNCHANGED <<mode, exit_code, parser, scanner, globals, upvalues, stdout>>

\* run_file hands one source to VM::interpret, repl one line after the other.
\* interpret: CompileError when compile returns None; else the script closure
\* is pushed, called with no argument, and run entered.  run on no frame
\* would panic (the script's arity is 0, so call never fails here).
Interpret ==
    /\ mode \in {"file", "repl"}
    /\ exit_code = <<>>
    /\ result \notin {"Running", "Panic"}
    /\ lines_read < (IF mode = "file" THEN 1 ELSE MaxLines)
    /\ lines_read' = lines_read + 1
    /\ \E compiled \in (IF mode = "file" THEN FileInputs ELSE ReplInputs) :
          IF compiled = None
          THEN /\ result' = "CompileError"
               /\ UNCHANGED <<mode, exit_code, parser, scanner, frames, stack, open_upvalues, globals, closures,
                              upvalues, stdout, stderr>>
          ELSE LET heap == Append(closures, ClosureNew(compiled))
                   c == Len(heap)
               IN  /\ closures' = heap
                   /\ call(frames, push(stack, ClosureV(c)), heap, c, 0)
                   /\ result' = IF CallOk(heap, c, 0) THEN "Running" ELSE "Panic"
                   /\ UNCHANGED <<mode, exit_code, parser, scanner, globals, upvalues, stdout>>

\* run_file with the exit codes of the two errors exchanged
Exit_exchanged ==
    /\ mode = "file"
    /\ exit_code = <<>>
    /\ result \in {"Ok", "CompileError", "RuntimeError"}
    /\ exit_code' = << CASE result = "CompileError" -> 70
                         [] result = "RuntimeError" -> 65
                         [] result = "Ok" -> 0 >>
    /\ UNCHANGED <<mode, parser, scanner, lines_read, frames, stack, open_upvalues, globals,
                   closures, upvalues, result, stdout, stderr>>

\* run_file: exit with the code of what interpret returned
Exit ==
    /\ mode = "file"
    /\ exit_code = <<>>
    /\ result \in {"Ok", "CompileError", "RuntimeError"}
    /\ exit_code' = << CASE result = "CompileError" -> 65
                         [] result = "RuntimeError" -> 70
                         [] result = "Ok" -> 0 >>
    /\ UNCHANGED <<mode, parser, scanner, lines_read, frames, stack, open_upvalues, globals,
                   closures, upvalues, result, stdout, stderr>>

\* main with more than one argument: the usage line, then exit(64)
Usage ==
    /\ mode = "usage"
    /\ exit_code = <<>>
    /\ stderr' = Append(stderr, Message("Usage: rslox [path]", <<>>))
    /\ exit_code' = <<64>>
    /\ UNCHANGED <<mode, parser, scanner, lines_read, frames, stack, open_upvalues, globals,
                   closures, upvalues, result, stdout>>

Next ==
    \/ Interpret \/ Exit \/ Usage
    \/ Subtract \/ Multiply \/ Divide \/ Add
    \/ True \/ False \/ Nil
    \/ Greater \/ Less \/ Equal
    \/ Constant \/ Negate \/ Not
    \/ DefineGlobal \/ GetGlobal \/ SetGlobal
    \/ GetLocal \/ SetLocal
    \/ Jump \/ JumpIfFalse \/ Loop
    \/ Call \/ Closure
    \/ GetUpvalue \/ SetUpvalue \/ CloseUpvalue
    \/ Return \/ Pop \/ OpPrint

Spec == Init /\ [][Next]_vars

-----------------------------------------------------------------------------
(* compiler/mod.rs: the Parser and its chain of Compilers, with locals,     *)
(* upvalues, constants and diagnostics.  The tokens of the source are not   *)
(* kept: every handler is given the tokens it consumes, all on line 1.      *)

\* const U8_COUNT, and u8::MAX, u16::MAX
U8_COUNT == 256
U8_MAX == 255
U16_MAX == 65535

\* casts `as u8` and `as u16`
as_u8(n) == n % 256
as_u16(n) == n % 65536

\* struct Local
Local(name, depth, is_captured) ==
    [name |-> name, depth |-> depth, is_captured |-> is_captured]

\* struct Token: its type, its lexeme and its line
Token(token_type, value) == [token_type |-> token_type, value |-> value, line |-> 1]

\* the lexemes this, ; and nil
StrThis == <<116, 104, 105, 115>>
StrSemicolon == <<59>>
StrNil == <<110, 105, 108>>

\* What the slots of `locals` hold before they are written: the array is made
\* by MaybeUninit::uninit().assume_init(), so a slot never written holds
\* whatever the memory held.
Uninitialized == {Local(NameX, 0 - 1, FALSE), Local(NameF, 0, TRUE)}

\* Compiler::new: slot 0 is written (the local "this" of depth 0), every other
\* slot is as allocated; `locals` holds the slots written so far
CompilerNew(function_type, uninit) ==
    [function |-> Function(0, <<>>, <<>>, <<>>, <<>>, 0),
     function_type |-> function_type,
     locals |-> <<Local(StrThis, 0, FALSE)>>,
     local_count |-> 1,
     scope_depth |-> 0,
     upvalues |-> <<>>,
     uninit |-> uninit]

\* compiler.locals[i]
LocalAt(c, i) == IF i < Len(c.locals) THEN c.locals[i + 1] ELSE c.uninit

\* compiler.locals[i] = local (i is a slot written before, or the first one
\* never written)
LocalPut(c, i, local) ==
    [c EXCEPT !.locals = IF i < Len(@) THEN [@ EXCEPT ![i + 1] = local]
                         ELSE Append(@, local)]

\* the range 0..n of a loop, in order
Indices(n) == [i \in 1..n |-> i - 1]

\* Result<i32, &'static str>
Resolved(arg) == [t |-> "Ok", arg |-> arg]
Unresolved(text) == [t |-> "Err", text |-> text]

\* Compiler::resolve_local with a loop that starts one slot too high
resolve_local_past(c, name) ==
    LET Named(i) == LocalAt(c, i).name = name
        found == SelectSeq(Indices(c.local_count + 1), Named)
        last == Last(found)
    IN  IF found = <<>> THEN Resolved(0 - 1)
        ELSE IF LocalAt(c, last).depth = 0 - 1
        THEN Unresolved("Can't read local variable in its own initializer.")
        ELSE Resolved(last)

\* Compiler::resolve_local with a loop from slot 0 up: the first local of
\* that name
resolve_local_outermost(c, name) ==
    LET Named(i) == LocalAt(c, i).name = name
        found == SelectSeq(Indices(c.local_count), Named)
        first == Head(found)
    IN  IF found = <<>> THEN Resolved(0 - 1)
        ELSE IF LocalAt(c, first).depth = 0 - 1
        THEN Unresolved("Can't read local variable in its own initializer.")
        ELSE Resolved(first)

\* Compiler::resolve_local: the last local of that name, an error if it is
\* declared and not yet initialized, -1 if there is none
resolve_local(c, name) ==
    LET Named(i) == LocalAt(c, i).name = name
        found == SelectSeq(Indices(c.local_count), Named)
        last == Last(found)
    IN  IF found = <<>> THEN Resolved(0 - 1)
        ELSE IF LocalAt(c, last).depth = 0 - 1
        THEN Unresolved("Can't read local variable in its own initializer.")
        ELSE Resolved(last)

\* Compiler::add_upvalue: the result and the compiler
add_upvalue(c, index, is_local) ==
    LET known == {i \in 1..c.function.upvalue_count :
                    c.upvalues[i].index = index /\ c.upvalues[i].is_local = is_local}
    IN  IF known # {}
        THEN [comp |-> c, res |-> Resolved((CHOOSE i \in known : \A j \in known : i <= j) - 1)]
        ELSE IF c.function.upvalue_count = U8_COUNT
        THEN [comp |-> c, res |-> Unresolved("Too many closures variables in function.")]
        ELSE [comp |-> [c EXCEPT !.upvalues = Append(@, [index |-> index, is_local |-> is_local]),
                              !.function.upvalue_count = @ + 1],
              res |-> Resolved(c.function.upvalue_count)]

\* Compiler::resolve_upvalue for the compiler number k of the chain cs (its
\* enclosing compiler is number k - 1): the result and the chain
RECURSIVE resolve_upvalue(_, _, _)
resolve_upvalue(cs, k, name) ==
    IF k = 1 THEN [cs |-> cs, res |-> Resolved(0 - 1)]
    ELSE LET local == resolve_local(cs[k - 1], name)
         IN  IF local.t = "Err" THEN [cs |-> cs, res |-> local]
             ELSE IF local.arg # 0 - 1
             THEN LET captured == [LocalAt(cs[k - 1], local.arg) EXCEPT !.is_captured = TRUE]
                      marked == [cs EXCEPT ![k - 1] = LocalPut(@, local.arg, captured)]
                      added == add_upvalue(marked[k], as_u8(local.arg), TRUE)
                  IN  [cs |-> [marked EXCEPT ![k] = added.comp], res |-> added.res]
             ELSE LET upvalue == resolve_upvalue(cs, k - 1, name)
                  IN  IF upvalue.res.t = "Err" THEN upvalue
                      ELSE IF upvalue.res.arg # 0 - 1
                      THEN LET added == add_upvalue(upvalue.cs[k], as_u8(upvalue.res.arg), FALSE)
                           IN  [cs |-> [upvalue.cs EXCEPT ![k] = added.comp], res |-> added.res]
                      ELSE [cs |-> upvalue.cs, res |-> Resolved(0 - 1)]

\* Parser::new: no error, the Compiler of the script.  compilers is the chain
\* of enclosing compilers, the current one last; nest holds the handlers that
\* wait for the end of a construct, innermost last; uninit is what this run
\* finds in memory it did not write; skipping tells that
\* synchronize stopped in front of a token that is not the start of a
\* statement; aborted that the process panicked; eprint is what the parser
\* wrote to stderr, compiled what compile returned
ParserNew(uninit) ==
    [uninit |-> uninit,
     previous |-> Token("EOF", <<>>),
     had_error |-> FALSE,
     panic_mode |-> FALSE,
     skipping |-> FALSE,
     aborted |-> FALSE,
     compilers |-> <<CompilerNew("Script", uninit)>>,
     nest |-> <<>>,
     eprint |-> <<>>,
     compiled |-> None]

\* self.compiler, and its replacement
compiler(p) == Last(p.compilers)
SetCompiler(p, c) == [p EXCEPT !.compilers[Len(p.compilers)] = c]

\* Parser::emit_byte for each of the bytes (Chunk::write with previous.line)
emit(p, bytes) ==
    [p EXCEPT !.compilers[Len(p.compilers)].function.chunk =
        [@ EXCEPT !.code = @ \o bytes,
                  !.lines = @ \o [i \in 1..Len(bytes) |-> 1]]]

\* error_at without panic mode: every error is reported
error_at_always(p, token, message) ==
    [p EXCEPT !.panic_mode = TRUE,
              !.had_error = TRUE,
              !.eprint = Append(@, Message("[line {}] Error: " \o message,
                                           <<DisplayNumber(token.line)>>))]

\* Parser::error_at: nothing in panic mode, else the diagnostic and both flags
error_at(p, token, message) ==
    IF p.panic_mode THEN p
    ELSE [p EXCEPT !.panic_mode = TRUE,
                   !.had_error = TRUE,
                   !.eprint = Append(@,
                        IF token.token_type = "EOF"
                        THEN Message("[line {}] Error at end: " \o message,
                                     <<DisplayNumber(token.line)>>)
                        ELSE IF token.token_type = "Error"
                        THEN Message("[line {}] Error: " \o message,
                                     <<DisplayNumber(token.line)>>)
                        ELSE Message("[line {}] Error at '{}': " \o message,
                                     <<DisplayNumber(token.line), token.value>>))]

\* Parser::error
error(p, message) == error_at(p, p.previous, message)

\* Parser::advance over a token of the source (no error token among them)
advance(p, token) == [p EXCEPT !.previous = token, !.skipping = FALSE]

\* Parser::synchronize clearing had_error as well
synchronize_forgets(p) ==
    [p EXCEPT !.panic_mode = FALSE,
              !.had_error = FALSE,
              !.skipping = p.previous.token_type # "Semicolon"]

\* Parser::synchronize: panic mode is left; after a ; no token is skipped,
\* else the tokens up to the next start of a statement are
synchronize(p) ==
    [p EXCEPT !.panic_mode = FALSE,
              !.skipping = p.previous.token_type # "Semicolon"]


\* Parser::make_constant: Chunk::add_constant pushes the value, and then an
\* index above u8::MAX is an error
make_constant(p, value) ==
    LET constant == Len(compiler(p).function.chunk.constants)
        added == [p EXCEPT !.compilers[Len(p.compilers)].function.chunk =
                        add_constant(@, value)]
    IN  IF constant > U8_MAX
        THEN error(added, "Too many constants in one chunk.")
        ELSE added

\* the index make_constant returns when called in p
MadeConstant(p) ==
    LET constant == Len(compiler(p).function.chunk.constants)
    IN  IF constant > U8_MAX THEN 0 ELSE as_u8(constant)

\* Parser::emit_constant
EmitConstant(p, value) ==
    emit(make_constant(p, value), <<Byte("Constant"), MadeConstant(p)>>)

\* Parser::add_local
add_local(p, name) ==
    LET c == compiler(p)
    IN  IF c.local_count = U8_COUNT
        THEN error(p, "Too many local variables in function.")
        ELSE SetCompiler(p, [LocalPut(c, c.local_count, Local(name.value, 0 - 1, FALSE))
                                EXCEPT !.local_count = @ + 1])

\* Parser::declare_variable walking all the locals, those of the enclosing
\* scopes too
declare_variable_all_scopes(p) ==
    LET c == compiler(p)
        name == p.previous
    IN  IF c.scope_depth = 0 THEN p
        ELSE IF \E i \in 0..(c.local_count - 1) : LocalAt(c, i).name = name.value
        THEN add_local(error(p, "A variable with this name in this scope already exists."),
                       name)
        ELSE add_local(p, name)

\* Parser::declare_variable: the locals are walked from the last one down to
\* the first one of an enclosing scope; an equal name on the way is an error
declare_variable(p) ==
    LET c == compiler(p)
        name == p.previous
        Outer(i) == LocalAt(c, i).depth # 0 - 1 /\ LocalAt(c, i).depth < c.scope_depth
        outer == SelectSeq(Indices(c.local_count), Outer)
        break == IF outer = <<>> THEN 0 - 1 ELSE Last(outer)
        walked == (break + 1)..(c.local_count - 1)
    IN  IF c.scope_depth = 0 THEN p
        ELSE IF \E i \in walked : LocalAt(c, i).name = name.value
        THEN add_local(error(p, "A variable with this name in this scope already exists."),
                       name)
        ELSE add_local(p, name)

\* Parser::idenitifier_constant
idenitifier_constant(p, token) == make_constant(p, StringV(token.value))

\* Parser::parse_variable, the identifier `name` being the current token: the
\* parser, and the index returned when called in p
parse_variable(p, name) ==
    LET declared == declare_variable(advance(p, name))
    IN  IF compiler(declared).scope_depth > 0 THEN declared
        ELSE idenitifier_constant(declared, name)

ParsedVariable(p) == IF compiler(p).scope_depth > 0 THEN 0 ELSE MadeConstant(p)

\* Parser::mark_initialized
mark_initialized(p) ==
    LET c == compiler(p)
    IN  IF c.scope_depth = 0 THEN p
        ELSE SetCompiler(p, LocalPut(c, c.local_count - 1,
                                     [LocalAt(c, c.local_count - 1) EXCEPT
                                        !.depth = c.scope_depth]))

\* Parser::define_variable
define_variable(p, global) ==
    IF compiler(p).scope_depth > 0 THEN mark_initialized(p)
    ELSE emit(p, <<Byte("DefineGlobal"), global>>)

\* Parser::begin_scope
begin_scope(p) == [p EXCEPT !.compilers[Len(p.compilers)].scope_depth = @ + 1]

\* Parser::end_scope: the locals above the depth left are dropped from the last
\* one down, each with CloseUpvalue if captured and with Pop if not
end_scope(p) ==
    LET c == compiler(p)
        depth == c.scope_depth - 1
        Stays(i) == LocalAt(c, i).depth <= depth
        stay == SelectSeq(Indices(c.local_count), Stays)
        kept == IF stay = <<>> THEN 0 ELSE 1 + Last(stay)
        dropped == [i \in 1..(c.local_count - kept) |->
                        IF LocalAt(c, c.local_count - i).is_captured
                        THEN Byte("CloseUpvalue") ELSE Byte("Pop")]
    IN  emit(SetCompiler(p, [c EXCEPT !.scope_depth = depth, !.local_count = kept]),
             dropped)

\* the tokens of the sources
TokNil == Token("Nil", StrNil)
TokSemicolon == Token("Semicolon", StrSemicolon)
TokNumber(n) == Token("Number", Digits(n))
TokIdentifier(name) == Token("Idenitifier", name)
TokLeftBrace == Token("LeftBrace", <<123>>)
TokRightBrace == Token("RightBrace", <<125>>)
TokLeftParen == Token("LeftParen", <<40>>)
TokRightParen == Token("RightParen", <<41>>)
TokTrue == Token("True", <<116, 114, 117, 101>>)

\* Parser::unwrap_err: the parser, and the i32
unwrap_err(p, res) == IF res.t = "Err" THEN error(p, res.text) ELSE p
Unwrapped(res) == IF res.t = "Err" THEN 0 ELSE res.arg

\* Parser::named_variable for a name that no = follows
named_variable(p, name) ==
    LET local == resolve_local(compiler(p), name.value)
        p1 == unwrap_err(p, local)
    IN  IF Unwrapped(local) # 0 - 1
        THEN emit(p1, <<Byte("GetLocal"), as_u8(Unwrapped(local))>>)
        ELSE LET upvalue == resolve_upvalue(p1.compilers, Len(p1.compilers), name.value)
                 p2 == unwrap_err([p1 EXCEPT !.compilers = upvalue.cs], upvalue.res)
             IN  IF Unwrapped(upvalue.res) # 0 - 1
                 THEN emit(p2, <<Byte("GetUpvalue"), as_u8(Unwrapped(upvalue.res))>>)
                 ELSE emit(idenitifier_constant(p2, name),
                           <<Byte("GetGlobal"), MadeConstant(p2)>>)

\* Parser::parse_precendence(Assignment) on the tokens of a primary expression:
\* literal, number or variable
parse_precendence(p, e) ==
    CASE e.k = "nil" -> emit(advance(p, TokNil), <<Byte("Nil")>>)
      [] e.k = "true" -> emit(advance(p, TokTrue), <<Byte("True")>>)
      [] e.k = "number" -> EmitConstant(advance(p, TokNumber(e.n)), NumberV(e.n))
      [] e.k = "variable" ->
            named_variable(advance(p, TokIdentifier(e.name)), TokIdentifier(e.name))

\* the end of Parser::declaration
DeclarationEnd(p) == IF p.panic_mode THEN synchronize(p) ELSE p

\* Parser::expression_statement inside Parser::declaration, for `e ;`
expression_statement(p, e) ==
    DeclarationEnd(emit(advance(parse_precendence(p, e), TokSemicolon), <<Byte("Pop")>>))

\* Parser::print_statement inside Parser::declaration, for `print e ;`
print_statement(p, e) ==
    DeclarationEnd(emit(advance(parse_precendence(advance(p, Token("Print", <<112>>)), e),
                                TokSemicolon),
                        <<Byte("Print")>>))

\* Parser::declaration for the source `;`: parse_precendence finds no prefix
\* rule for the ; it advanced over, consume finds no ; after it (the error is
\* not reported in panic mode), Pop is emitted and synchronize returns at once
ErrorStatement(p) ==
    DeclarationEnd(emit(error(advance(p, TokSemicolon), "Expect expression."),
                        <<Byte("Pop")>>))

\* Parser::var_declaration inside Parser::declaration, for `var name ;` and
\* `var name = e ;`
var_declaration(p, name, e) ==
    LET var == advance(p, Token("Var", <<118, 97, 114>>))
        parsed == parse_variable(var, TokIdentifier(name))
        value == IF e = None THEN emit(parsed, <<Byte("Nil")>>)
                 ELSE parse_precendence(advance(parsed, Token("Equal", <<61>>)), e)
    IN  DeclarationEnd(define_variable(advance(value, TokSemicolon), ParsedVariable(var)))

\* a handler waiting for the end of its construct, with two of its variables
Nest(kind, a, b) == [kind |-> kind, a |-> a, b |-> b]
Push(p, entry) == [p EXCEPT !.nest = Append(@, entry)]
PopNest(p) == [p EXCEPT !.nest = SubSeq(@, 1, Len(@) - 1)]

\* Parser::statement at a {: begin_scope, and block waits for the }
BlockBegin(p) == Push(begin_scope(advance(p, TokLeftBrace)), Nest("block", 0, 0))

\* Parser::emit_jump; it returns CodeLen - 2
CodeLen(p) == Len(compiler(p).function.chunk.code)
EmitJump(p, op) == emit(p, <<op, 255, 255>>)

\* the check `x as u16 > u16::MAX` of emit_loop and patch_jump
TooFar(x) == as_u16(x) > U16_MAX

\* Parser::emit_loop
EmitLoop(p, loop_start) ==
    LET looped == emit(p, <<Byte("Loop")>>)
        offset == CodeLen(looped) - loop_start + 2
    IN  emit(IF TooFar(offset) THEN error(looped, "Loop body too large") ELSE looped,
             <<(offset \div 256) % 256, offset % 256>>)

\* Parser::patch_jump
PatchJump(p, offset) ==
    LET jump == CodeLen(p) - offset - 2
        checked == IF TooFar(jump) THEN error(p, "Too much code to jump over.") ELSE p
    IN  [checked EXCEPT !.compilers[Len(p.compilers)].function.chunk.code =
            [@ EXCEPT ![offset + 1] = (jump \div 256) % 256,
                      ![offset + 2] = jump % 256]]

\* Parser::while_statement for `while ( true ) {` up to the body, a block
WhileBegin(p) ==
    LET while == advance(p, Token("While", <<119>>))
        condition == parse_precendence(advance(while, TokLeftParen), ETrue)
        jumped == EmitJump(advance(condition, TokRightParen), Byte("JumpIfFalse"))
        body == begin_scope(advance(emit(jumped, <<Byte("Pop")>>), TokLeftBrace))
    IN  Push(body, Nest("while", CodeLen(while), CodeLen(jumped) - 2))

\* the } of a block: end_scope and the end of the declaration; for the body of
\* a while, the rest of while_statement before that
BlockEnd(p) ==
    LET entry == Last(p.nest)
        ended == end_scope(advance(PopNest(p), TokRightBrace))
    IN  DeclarationEnd(
            IF entry.kind = "while"
            THEN emit(PatchJump(EmitLoop(ended, entry.a), entry.b), <<Byte("Pop")>>)
            ELSE ended)

\* Parser::init_compiler
init_compiler(p, function_type) ==
    [p EXCEPT !.compilers =
        Append(@, [CompilerNew(function_type, p.uninit) EXCEPT
                        !.function.name = p.previous.value])]

\* Parser::fun_declaration for `fun name (`: parse_variable, mark_initialized,
\* and function up to the parameters
FunBegin(p, name) ==
    LET fun == advance(p, Token("Fun", <<102, 117, 110>>))
        parsed == mark_initialized(parse_variable(fun, TokIdentifier(name)))
        inner == begin_scope(init_compiler(parsed, "Function"))
    IN  Push(advance(inner, TokLeftParen), Nest("parameters", ParsedVariable(fun), 0))

\* one turn of the loop of Parser::function: the parameter `name`
Parameter(p, name) ==
    LET counted == [p EXCEPT !.compilers[Len(p.compilers)].function.arity = @ + 1]
        checked == IF compiler(counted).function.arity > 255
                   THEN error_at(counted, TokIdentifier(name),
                                 "Can't have more than 255 parameters.")
                   ELSE counted
    IN  define_variable(parse_variable(checked, TokIdentifier(name)),
                        ParsedVariable(checked))

\* Parser::function for `) {`
ParametersEnd(p) ==
    Push(advance(advance(PopNest(p), TokRightParen), TokLeftBrace),
         Nest("function", Last(p.nest).a, 0))

\* Parser::emit_return
EmitReturn(p) == emit(p, <<Byte("Nil"), Byte("Return")>>)

\* what end_compiler emits after Closure: two bytes for each upvalue
RECURSIVE UpvalueBytes(_, _)
UpvalueBytes(ups, n) ==
    IF n = 0 THEN <<>>
    ELSE UpvalueBytes(ups, n - 1) \o <<IF ups[n].is_local THEN 1 ELSE 0, ups[n].index>>

\* Parser::end_compiler(true): the function is taken, the enclosing compiler is
\* current again and gets the constant, Closure and the upvalue bytes
end_compiler(p) ==
    LET returned == EmitReturn(p)
        inner == compiler(returned)
        outer == [returned EXCEPT !.compilers = SubSeq(@, 1, Len(@) - 1)]
    IN  emit(emit(make_constant(outer, FunctionV(inner.function)),
                  <<Byte("Closure"), MadeConstant(outer)>>),
             UpvalueBytes(inner.upvalues, inner.function.upvalue_count))

\* the } of a function body: the rest of function and of fun_declaration
FunEnd(p) ==
    DeclarationEnd(define_variable(end_compiler(advance(PopNest(p), TokRightBrace)),
                                   Last(p.nest).a))

\* Parser::expression_statement for `callee (`: the callee, and argument_list
\* with arg_count 0
CallBegin(p, callee) ==
    Push(advance(parse_precendence(p, EVariable(callee)), TokLeftParen),
         Nest("call", 0, 0))

\* one turn of the loop of Parser::argument_list.  arg_count is a u8: at 255
\* `arg_count += 1` panics in a build with overflow checks and wraps in a
\* build without
Argument(p, e, overflow_checks) ==
    LET arg_count == Last(p.nest).a
        parsed == parse_precendence(p, e)
        checked == IF arg_count = 255
                   THEN error(parsed, "Can't have more than 255 arguments.")
                   ELSE parsed
    IN  IF arg_count + 1 > U8_MAX /\ overflow_checks
        THEN [checked EXCEPT !.aborted = TRUE]
        ELSE [checked EXCEPT !.nest[Len(p.nest)].a = as_u8(arg_count + 1)]

\* `) ;` after the arguments: the rest of argument_list, call and
\* expression_statement
CallEnd(p) ==
    DeclarationEnd(
        emit(advance(emit(advance(PopNest(p), TokRightParen),
                          <<Byte("Call"), Last(p.nest).a>>),
                     TokSemicolon),
             <<Byte("Pop")>>))

\* Parser::compile at the end of the source: end_compiler(false), and None
\* after an error
EndCompile(p) ==
    LET returned == EmitReturn(advance(p, Token("EOF", <<>>)))
    IN  [returned EXCEPT !.compiled = IF returned.had_error THEN None
                                      ELSE compiler(returned).function]

-----------------------------------------------------------------------------
(* Parser::compile as a state machine.  One step compiles the next piece of *)
(* the source: a statement, or the part of a statement up to the place      *)
(* where statements or expressions are nested in it.  The compilation is    *)
(* run twice over the same source, each run with its own Parser and its own *)
(* uninitialized memory: parser.twins holds the two Parsers.                *)

\* How far before a limit of the compiler the long sources start.
Margin == 2
\* Pieces of a source that starts empty.
MaxPieces == 4

\* the pieces left to a source that starts before a limit
LongPieces == Margin + 4

\* the identifiers l1, l2, ... and p1, p2, ...
LocalName(i) == <<108>> \o Digits(i)
ParamName(i) == <<112>> \o Digits(i)

\* the Parser after  { var l1; ... var lK;
LocalsSource(K, uninit) ==
    [ParserNew(uninit) EXCEPT
        !.previous = TokSemicolon,
        !.nest = <<Nest("block", 0, 0)>>,
        !.compilers[1] =
            [@ EXCEPT !.function.chunk.code = [i \in 1..K |-> Byte("Nil")],
                      !.function.chunk.lines = [i \in 1..K |-> 1],
                      !.locals = @ \o [i \in 1..K |-> Local(LocalName(i), 1, FALSE)],
                      !.local_count = K + 1,
                      !.scope_depth = 1]]

\* the Parser after  1; 1; ... 1;  (K statements)
ConstantsSource(K, uninit) ==
    [ParserNew(uninit) EXCEPT
        !.previous = TokSemicolon,
        !.compilers[1].function.chunk =
            [code |-> [j \in 1..(3 * K) |->
                            CASE j % 3 = 1 -> Byte("Constant")
                              [] j % 3 = 2 -> (j - 2) \div 3
                              [] j % 3 = 0 -> Byte("Pop")],
             constants |-> [i \in 1..K |-> NumberV(1)],
             lines |-> [j \in 1..(3 * K) |-> 1]]]

\* the Parser after  while (true) { nil; nil; ... nil;  (N statements)
CodeSource(N, uninit) ==
    [ParserNew(uninit) EXCEPT
        !.previous = TokSemicolon,
        !.nest = <<Nest("while", 0, 2)>>,
        !.compilers[1] =
            [@ EXCEPT !.function.chunk.code =
                            <<Byte("True"), Byte("JumpIfFalse"), 255, 255, Byte("Pop")>>
                                \o [j \in 1..(2 * N) |->
                                        IF j % 2 = 1 THEN Byte("Nil") ELSE Byte("Pop")],
                      !.function.chunk.lines = [j \in 1..(2 * N + 5) |-> 1],
                      !.scope_depth = 1]]

\* the Parser after  f(nil, nil, ... nil  (K arguments)
ArgumentsSource(K, uninit) ==
    [ParserNew(uninit) EXCEPT
        !.previous = TokNil,
        !.nest = <<Nest("call", K, 0)>>,
        !.compilers[1].function.chunk =
            [code |-> <<Byte("GetGlobal"), 0>> \o [i \in 1..K |-> Byte("Nil")],
             constants |-> <<StringV(NameF)>>,
             lines |-> [j \in 1..(K + 2) |-> 1]]]

\* the Parser after  fun f(p1, p2, ... pK  (K parameters)
ParametersSource(K, uninit) ==
    [ParserNew(uninit) EXCEPT
        !.previous = TokIdentifier(ParamName(K)),
        !.nest = <<Nest("parameters", 0, 0)>>,
        !.compilers =
            <<[@[1] EXCEPT !.function.chunk.constants = <<StringV(NameF)>>],
              [CompilerNew("Function", uninit) EXCEPT
                    !.function.name = NameF,
                    !.function.arity = K,
                    !.locals = @ \o [i \in 1..K |-> Local(ParamName(i), 1, FALSE)],
                    !.local_count = K + 1,
                    !.scope_depth = 1]>>]

\* the Parser after  { var x; fun f() {
ClosureSource(uninit) ==
    ParametersEnd(FunBegin(var_declaration(BlockBegin(ParserNew(uninit)), NameX, None),
                           NameF))

\* the sources: where the Parser is when the model starts
Sources == {"empty", "closure", "locals", "constants", "code", "arguments", "parameters"}

SourceParser(source, uninit) ==
    CASE source = "empty" -> ParserNew(uninit)
      [] source = "closure" -> ClosureSource(uninit)
      [] source = "locals" -> LocalsSource(U8_MAX - Margin, uninit)
      [] source = "constants" -> ConstantsSource(U8_MAX - Margin, uninit)
      [] source = "code" -> CodeSource((U16_MAX + 1 - 8) \div 2 - Margin, uninit)
      [] source = "arguments" -> ArgumentsSource(U8_MAX - Margin, uninit)
      [] source = "parameters" -> ParametersSource(U8_MAX - Margin, uninit)

\* the pieces the rest of a source is made of
Pieces(source) ==
    CASE source = "empty" ->
            {"var", "fun", "parameter", "parameters end", "fun end", "{", "}", "while",
             "expression", "print", "call", "argument", "call end", ";", "EOF"}
      [] source = "closure" -> {"var", "fun end", "{", "}", "expression", "print", "EOF"}
      [] source = "locals" -> {"var", "{", "}", "EOF"}
      [] source = "constants" -> {"expression", "EOF"}
      [] source = "code" -> {"expression", "}", "EOF"}
      [] source = "arguments" -> {"argument", "call end", "EOF"}
      [] source = "parameters" -> {"parameter", "parameters end", "fun end", "EOF"}

\* the names and the expressions of the pieces
Names(source, c) ==
    CASE source \in {"empty", "closure"} -> {NameX}
      [] source = "parameters" -> {ParamName(c.local_count)}
      [] OTHER -> {LocalName(c.local_count)}

Initializers(source) ==
    IF source \in {"empty", "closure"} THEN {None, EVariable(NameX)} ELSE {None}

Expressions(source) ==
    CASE source \in {"empty", "closure"} -> {ENumber(1), EVariable(NameX)}
      [] source = "constants" -> {ENumber(1)}
      [] OTHER -> {ENil}

\* the two runs
Twin1 == parser.twins[1]
Twin2 == parser.twins[2]

\* VM::interpret is in Parser::compile, which is at the start of a piece
InCompile(piece) ==
    /\ parser # None
    /\ result = "New"
    /\ parser.pieces > 0
    /\ piece \in Pieces(parser.source)
    /\ Twin1.compiled = None
    /\ ~Twin1.aborted

\* the token that follows is the start of a statement
AtStatement(keyword) == keyword \/ ~Twin1.skipping

\* the innermost handler that waits
Waiting == IF Twin1.nest = <<>> THEN "" ELSE Last(Twin1.nest).kind

\* the piece is compiled: p1 and p2 are the Parsers after it, what the first
\* wrote is on stderr, and a panic ends the process
Compiled(p1, p2) ==
    /\ parser' = [parser EXCEPT !.twins = <<p1, p2>>, !.pieces = @ - 1]
    /\ stderr' = p1.eprint
    /\ result' = IF p1.aborted THEN "Panic" ELSE result
    /\ UNCHANGED <<mode, exit_code, scanner, lines_read, frames, stack, open_upvalues, globals,
                   closures, upvalues, stdout>>

\* run_file has called VM::interpret, which has called Parser::compile
CompileInit ==
    /\ mode = "file"
    /\ exit_code = <<>>
    /\ lines_read = 1
    /\ frames = <<>>
    /\ stack = <<>>
    /\ open_upvalues = <<>>
    /\ globals = define_native(define_native(<<>>, 0, NameClock, "clock"),
                               1, NameSqrt, "sqrt")
    /\ closures = <<>>
    /\ upvalues = <<>>
    /\ result = "New"
    /\ stdout = <<>>
    /\ stderr = <<>>
    /\ scanner = None
    /\ \E source \in Sources :
       \E u1 \in Uninitialized, u2 \in Uninitialized :
          parser = [source |-> source,
                    pieces |-> IF source \in {"empty", "closure"}
                               THEN MaxPieces ELSE LongPieces,
                    twins |-> <<SourceParser(source, u1), SourceParser(source, u2)>>]

VarDeclaration ==
    /\ InCompile("var")
    /\ AtStatement(TRUE)
    /\ Waiting \in {"", "block", "while", "function"}
    /\ \E name \in Names(parser.source, compiler(Twin1)) :
       \E e \in Initializers(parser.source) :
          Compiled(var_declaration(Twin1, name, e), var_declaration(Twin2, name, e))

FunDeclaration ==
    /\ InCompile("fun")
    /\ AtStatement(TRUE)
    /\ Waiting \in {"", "block", "while", "function"}
    /\ Compiled(FunBegin(Twin1, NameF), FunBegin(Twin2, NameF))

FunParameter ==
    /\ InCompile("parameter")
    /\ Waiting = "parameters"
    /\ \E name \in Names(parser.source, compiler(Twin1)) :
          Compiled(Parameter(Twin1, name), Parameter(Twin2, name))

FunBody ==
    /\ InCompile("parameters end")
    /\ Waiting = "parameters"
    /\ Compiled(ParametersEnd(Twin1), ParametersEnd(Twin2))

FunctionEnd ==
    /\ InCompile("fun end")
    /\ AtStatement(FALSE)
    /\ Waiting = "function"
    /\ Compiled(FunEnd(Twin1), FunEnd(Twin2))

Block ==
    /\ InCompile("{")
    /\ AtStatement(FALSE)
    /\ Waiting \in {"", "block", "while", "function"}
    /\ Compiled(BlockBegin(Twin1), BlockBegin(Twin2))

BlockClose ==
    /\ InCompile("}")
    /\ AtStatement(FALSE)
    /\ Waiting \in {"block", "while"}
    /\ Compiled(BlockEnd(Twin1), BlockEnd(Twin2))

WhileStatement ==
    /\ InCompile("while")
    /\ AtStatement(TRUE)
    /\ Waiting \in {"", "block", "while", "function"}
    /\ Compiled(WhileBegin(Twin1), WhileBegin(Twin2))

ExpressionStatement ==
    /\ InCompile("expression")
    /\ AtStatement(FALSE)
    /\ Waiting \in {"", "block", "while", "function"}
    /\ parser.source = "code" => Waiting = "while"
    /\ \E e \in Expressions(parser.source) :
          Compiled(expression_statement(Twin1, e), expression_statement(Twin2, e))

PrintStatement ==
    /\ InCompile("print")
    /\ AtStatement(TRUE)
    /\ Waiting \in {"", "block", "while", "function"}
    /\ Compiled(print_statement(Twin1, EVariable(NameX)),
                print_statement(Twin2, EVariable(NameX)))

SemicolonStatement ==
    /\ InCompile(";")
    /\ AtStatement(FALSE)
    /\ Waiting \in {"", "block", "while", "function"}
    /\ Compiled(ErrorStatement(Twin1), ErrorStatement(Twin2))

CallStatement ==
    /\ InCompile("call")
    /\ AtStatement(FALSE)
    /\ Waiting \in {"", "block", "while", "function"}
    /\ Compiled(CallBegin(Twin1, NameF), CallBegin(Twin2, NameF))

CallArgument ==
    /\ InCompile("argument")
    /\ Waiting = "call"
    /\ \E overflow_checks \in BOOLEAN :
          Compiled(Argument(Twin1, ENil, overflow_checks),
                   Argument(Twin2, ENil, overflow_checks))

CallClose ==
    /\ InCompile("call end")
    /\ Waiting = "call"
    /\ Compiled(CallEnd(Twin1), CallEnd(Twin2))

\* the end of the source: compile returns, and interpret goes on as Interpret
\* does, with CompileError for None and else with the script called
CompileEnd ==
    /\ InCompile("EOF")
    /\ Waiting = ""
    /\ LET p1 == EndCompile(Twin1)
           p2 == EndCompile(Twin2)
           heap == Append(closures, ClosureNew(p1.compiled))
       IN  /\ parser' = [parser EXCEPT !.twins = <<p1, p2>>, !.pieces = @ - 1]
           /\ stderr' = p1.eprint
           /\ IF p1.compiled = None
              THEN /\ result' = "CompileError"
                   /\ UNCHANGED <<frames, stack, closures>>
              ELSE /\ closures' = heap
                   /\ call(frames, push(stack, ClosureV(Len(heap))), heap, Len(heap), 0)
                   /\ result' = IF CallOk(heap, Len(heap), 0) THEN "Running" ELSE "Panic"
           /\ UNCHANGED <<mode, exit_code, scanner, lines_read, open_upvalues, globals, upvalues,
                          stdout>>

CompileNext ==
    \/ VarDeclaration \/ FunDeclaration \/ FunParameter \/ FunBody \/ FunctionEnd
    \/ Block \/ BlockClose \/ WhileStatement
    \/ ExpressionStatement \/ PrintStatement \/ SemicolonStatement
    \/ CallStatement \/ CallArgument \/ CallClose
    \/ CompileEnd

CompileSpec == CompileInit /\ [][CompileNext]_vars

-----------------------------------------------------------------------------
(* scanner.rs: the Scanner.  A source is the sequence of its bytes; the      *)
(* Scanner is the record of its fields, positions counted from 0 as in the   *)
(* code.                                                                     *)

Lower == <<"a", "b", "c", "d", "e", "f", "g", "h", "i", "j", "k", "l", "m",
           "n", "o", "p", "q", "r", "s", "t", "u", "v", "w", "x", "y", "z">>

Upper == <<"A", "B", "C", "D", "E", "F", "G", "H", "I", "J", "K", "L", "M",
           "N", "O", "P", "Q", "R", "S", "T", "U", "V", "W", "X", "Y", "Z">>

Decimal == <<"0", "1", "2", "3", "4", "5", "6", "7", "8", "9">>

\* the byte of an ASCII character
Char(ch) ==
    CASE \E i \in 1..26 : Lower[i] = ch -> 96 + (CHOOSE i \in 1..26 : Lower[i] = ch)
      [] \E i \in 1..26 : Upper[i] = ch -> 64 + (CHOOSE i \in 1..26 : Upper[i] = ch)
      [] \E i \in 1..10 : Decimal[i] = ch -> 47 + (CHOOSE i \in 1..10 : Decimal[i] = ch)
      [] ch = "\t" -> 9
      [] ch = "\n" -> 10
      [] ch = "\r" -> 13
      [] ch = " " -> 32
      [] ch = "!" -> 33
      [] ch = "\"" -> 34
      [] ch = "(" -> 40
      [] ch = ")" -> 41
      [] ch = "*" -> 42
      [] ch = "+" -> 43
      [] ch = "," -> 44
      [] ch = "-" -> 45
      [] ch = "." -> 46
      [] ch = "/" -> 47
      [] ch = ";" -> 59
      [] ch = "<" -> 60
      [] ch = "=" -> 61
      [] ch = ">" -> 62
      [] ch = "@" -> 64
      [] ch = "_" -> 95
      [] ch = "{" -> 123
      [] ch = "}" -> 125

\* the bytes of a text given character by character
Str(chars) == [i \in 1..Len(chars) |-> Char(chars[i])]

\* Scanner::new(source)
ScannerNew(source) == [source |-> source, start |-> 0, current |-> 0, line |-> 1]

is_at_end(s) == s.current = Len(s.source)

is_digit(ch) == Char("0") <= ch /\ ch <= Char("9")

is_alpha(ch) ==
    \/ Char("a") <= ch /\ ch <= Char("z")
    \/ Char("A") <= ch /\ ch <= Char("Z")
    \/ ch = Char("_")

\* make_token(token_type): the lexeme is source[start..current]
make_token(s, token_type) ==
    [token_type |-> token_type,
     value |-> SubSeq(s.source, s.start + 1, s.current),
     line |-> s.line]

\* error_token(message): the value is the message
error_token(s, message) ==
    [token_type |-> "Error", value |-> message, line |-> s.line]

UnexpectedCharacter ==
    Str(<<"U", "n", "e", "x", "p", "e", "c", "t", "e", "d", " ",
          "C", "h", "a", "r", "a", "c", "t", "e", "r">>)

UnterminatedString ==
    Str(<<"U", "n", "t", "e", "r", "m", "i", "n", "a", "t", "e", "d", " ",
          "S", "t", "r", "i", "n", "g">>)

\* Scanner::advance(): the scanner after the call; the byte it returns is Advanced
scanner_advance(s) == [s EXCEPT !.current = @ + 1]
Advanced(s) == At(s.source, s.current - 1)

\* match_(expected): the scanner after the call; it returned true when
\* current moved
match_(s, expected) ==
    IF is_at_end(s) THEN s
    ELSE IF At(s.source, s.current) # expected THEN s
    ELSE [s EXCEPT !.current = @ + 1]

\* Scanner::peek()
scanner_peek(s) == IF is_at_end(s) THEN 0 ELSE At(s.source, s.current)

\* peek_next() indexes source[current + 1] whenever current is not the end:
\* on the last byte of the source the index is out of bounds and the call
\* panics
PeekNextPanics(s) == ~is_at_end(s) /\ s.current + 1 >= Len(s.source)

peek_next(s) == IF is_at_end(s) THEN 0 ELSE At(s.source, s.current + 1)

\* while self.scanner_peek() != '\n' && !self.is_at_end() { self.advance(); }
RECURSIVE SkipComment(_)
SkipComment(s) ==
    IF scanner_peek(s) # Char("\n") /\ ~is_at_end(s) THEN SkipComment(scanner_advance(s))
    ELSE s

\* skip_whitespace(): the scanner after the call, or Panicked.  The arm of
\* '\n' ends with break, so the loop stops after one newline.
RECURSIVE skip_whitespace(_)
skip_whitespace(s) ==
    LET ch == scanner_peek(s)
    IN  CASE ch \in {Char(" "), Char("\r"), Char("\t")} ->
                skip_whitespace(scanner_advance(s))
          [] ch = Char("/") ->
                IF PeekNextPanics(s) THEN Panicked
                ELSE IF peek_next(s) = Char("/") THEN skip_whitespace(SkipComment(s))
                ELSE s
          [] ch = Char("\n") -> scanner_advance([s EXCEPT !.line = @ + 1])
          [] OTHER -> s

\* while is_digit(self.scanner_peek()) { self.advance(); }
RECURSIVE SkipDigits(_)
SkipDigits(s) == IF is_digit(scanner_peek(s)) THEN SkipDigits(scanner_advance(s)) ELSE s

\* number(): the scanner after the call and the token, or Panicked
number(s) ==
    LET whole == SkipDigits(s)
    IN  IF scanner_peek(whole) = Char(".")
        THEN IF PeekNextPanics(whole) THEN Panicked
             ELSE IF is_digit(peek_next(whole))
                  THEN LET fraction == SkipDigits(scanner_advance(whole))
                       IN  [scanner |-> fraction, token |-> make_token(fraction, "Number")]
                  ELSE [scanner |-> whole, token |-> make_token(whole, "Number")]
        ELSE [scanner |-> whole, token |-> make_token(whole, "Number")]

\* check_keyword(start, len, rest, token_type): Ok of the token type, or
\* Panicked.  The slice compared with rest is
\* source[self.start + start .. self.current + len]; a slice that ends past
\* the source panics.
check_keyword(s, start, len, rest, token_type) ==
    IF s.current - s.start = start + len
    THEN IF s.current + len > Len(s.source) THEN Panicked
         ELSE IF SubSeq(s.source, s.start + start + 1, s.current + len) = rest
              THEN Ok(token_type)
              ELSE Ok("Idenitifier")
    ELSE Ok("Idenitifier")

\* identifier_type()
identifier_type(s) ==
    LET first == At(s.source, s.start)
        second == At(s.source, s.start + 1)
    IN  CASE first = Char("a") -> check_keyword(s, 1, 2, Str(<<"n", "d">>), "And")
          [] first = Char("c") -> check_keyword(s, 1, 4, Str(<<"l", "a", "s", "s">>), "Class")
          [] first = Char("e") -> check_keyword(s, 1, 3, Str(<<"l", "s", "e">>), "Else")
          [] first = Char("f") ->
                IF s.current - s.start > 1
                THEN CASE second = Char("a") ->
                             check_keyword(s, 2, 3, Str(<<"l", "s", "e">>), "False")
                       [] second = Char("o") -> check_keyword(s, 2, 1, Str(<<"r">>), "For")
                       [] second = Char("u") -> check_keyword(s, 2, 1, Str(<<"n">>), "Fun")
                       [] OTHER -> Ok("Idenitifier")
                ELSE Ok("Idenitifier")
          [] first = Char("i") -> check_keyword(s, 1, 1, Str(<<"f">>), "If")
          [] first = Char("n") -> check_keyword(s, 1, 2, Str(<<"i", "l">>), "Nil")
          [] first = Char("o") -> check_keyword(s, 1, 1, Str(<<"r">>), "Or")
          [] first = Char("p") -> check_keyword(s, 1, 4, Str(<<"r", "i", "n", "t">>), "Print")
          [] first = Char("r") ->
                check_keyword(s, 1, 5, Str(<<"e", "t", "u", "r", "n">>), "Return")
          [] first = Char("s") -> check_keyword(s, 1, 4, Str(<<"u", "p", "e", "r">>), "Super")
          [] first = Char("t") ->
                IF s.current - s.start > 1
                THEN CASE second = Char("h") -> check_keyword(s, 2, 2, Str(<<"i", "s">>), "This")
                       [] second = Char("r") -> check_keyword(s, 2, 2, Str(<<"u", "e">>), "True")
                       [] OTHER -> Ok("Idenitifier")
                ELSE Ok("Idenitifier")
          [] first = Char("v") -> check_keyword(s, 1, 2, Str(<<"a", "r">>), "Var")
          [] first = Char("w") -> check_keyword(s, 1, 4, Str(<<"h", "i", "l", "e">>), "While")
          [] OTHER -> Ok("Idenitifier")

\* while is_alpha(self.scanner_peek()) || is_digit(self.scanner_peek()) { self.advance(); }
RECURSIVE SkipName(_)
SkipName(s) ==
    IF is_alpha(scanner_peek(s)) \/ is_digit(scanner_peek(s)) THEN SkipName(scanner_advance(s)) ELSE s

\* identifier(): the scanner after the call and the token, or Panicked
identifier(s) ==
    LET name == SkipName(s)
        res == identifier_type(name)
    IN  IF res = Panicked THEN Panicked
        ELSE [scanner |-> name, token |-> make_token(name, res.value)]

\* the loop of string(): up to the closing quote or the end of the source
RECURSIVE SkipString(_)
SkipString(s) ==
    IF scanner_peek(s) # Char("\"") /\ ~is_at_end(s)
    THEN SkipString(scanner_advance(IF scanner_peek(s) = Char("\n")
                                    THEN [s EXCEPT !.line = @ + 1] ELSE s))
    ELSE s

\* string()
string(s) ==
    LET body == SkipString(s)
    IN  IF is_at_end(body)
        THEN [scanner |-> body, token |-> error_token(body, UnterminatedString)]
        ELSE [scanner |-> scanner_advance(body),
              token |-> make_token(scanner_advance(body), "String")]

\* the token type of a character that is a token by itself
Punctuation(ch) ==
    CASE ch = Char("(") -> "LeftParen"
      [] ch = Char(")") -> "RightParen"
      [] ch = Char("{") -> "LeftBrace"
      [] ch = Char("}") -> "RightBrace"
      [] ch = Char(";") -> "Semicolon"
      [] ch = Char(",") -> "Comma"
      [] ch = Char(".") -> "Dot"
      [] ch = Char("-") -> "Minus"
      [] ch = Char("+") -> "Plus"
      [] ch = Char("/") -> "Slash"
      [] ch = Char("*") -> "Star"
      [] OTHER -> "None"

\* the arms of '!', '=', '<' and '>': the token type with and without '='
WithEqual(ch) ==
    CASE ch = Char("!") -> <<"BangEqual", "Bang">>
      [] ch = Char("=") -> <<"EqualEqual", "Equal">>
      [] ch = Char("<") -> <<"LessEqual", "Less">>
      [] ch = Char(">") -> <<"GreaterEqual", "Greater">>
      [] OTHER -> <<>>

\* scan_token(): the scanner after the call and the token it returns, or
\* Panicked
scan_token(s0) ==
    LET skipped == skip_whitespace(s0)
    IN  IF skipped = Panicked THEN Panicked
        ELSE LET s1 == [skipped EXCEPT !.start = skipped.current]
                 s == scanner_advance(s1)
                 ch == Advanced(s)
                 matched == match_(s, Char("="))
             IN  CASE is_at_end(s1) -> [scanner |-> s1, token |-> make_token(s1, "EOF")]
                   [] ~is_at_end(s1) /\ Punctuation(ch) # "None" ->
                         [scanner |-> s, token |-> make_token(s, Punctuation(ch))]
                   [] ~is_at_end(s1) /\ WithEqual(ch) # <<>> ->
                         [scanner |-> matched,
                          token |-> make_token(matched,
                                               IF matched.current # s.current
                                               THEN WithEqual(ch)[1] ELSE WithEqual(ch)[2])]
                   [] ~is_at_end(s1) /\ ch = Char("\"") -> string(s)
                   [] OTHER ->
                         IF is_digit(ch) THEN number(s)
                         ELSE IF is_alpha(ch) THEN identifier(s)
                         ELSE [scanner |-> s, token |-> error_token(s, UnexpectedCharacter)]

-----------------------------------------------------------------------------
(* The scanner at work: a source is put together from a few lexemes and      *)
(* scan_token is called until it returns EOF or panics.                      *)

\* Lexemes one source is put together from.
MaxLexemes == 3

\* the keywords of the language and the TokenType of each
KeywordTable ==
    {<<Str(<<"a", "n", "d">>), "And">>, <<Str(<<"c", "l", "a", "s", "s">>), "Class">>,
     <<Str(<<"e", "l", "s", "e">>), "Else">>, <<Str(<<"f", "a", "l", "s", "e">>), "False">>,
     <<Str(<<"f", "o", "r">>), "For">>, <<Str(<<"f", "u", "n">>), "Fun">>,
     <<Str(<<"i", "f">>), "If">>, <<Str(<<"n", "i", "l">>), "Nil">>,
     <<Str(<<"o", "r">>), "Or">>, <<Str(<<"p", "r", "i", "n", "t">>), "Print">>,
     <<Str(<<"r", "e", "t", "u", "r", "n">>), "Return">>,
     <<Str(<<"s", "u", "p", "e", "r">>), "Super">>, <<Str(<<"t", "h", "i", "s">>), "This">>,
     <<Str(<<"t", "r", "u", "e">>), "True">>, <<Str(<<"v", "a", "r">>), "Var">>,
     <<Str(<<"w", "h", "i", "l", "e">>), "While">>}

Keywords == {keyword[1] : keyword \in KeywordTable}

Lexemes ==
    Keywords \cup
    {Str(<<"v", "a">>), Str(<<"s">>), Str(<<"x">>), Str(<<"1">>), Str(<<".">>),
     Str(<<";">>), Str(<<"=">>), Str(<<"\"">>), Str(<<"@">>), Str(<<"/">>),
     Str(<<" ">>), Str(<<"\t">>), Str(<<"\n">>)}

RECURSIVE Concat(_)
Concat(lexemes) ==
    IF lexemes = <<>> THEN <<>> ELSE Head(lexemes) \o Concat(Tail(lexemes))

ScanInit ==
    /\ mode = "file"
    /\ exit_code = <<>>
    /\ lines_read = 1
    /\ frames = <<>>
    /\ stack = <<>>
    /\ open_upvalues = <<>>
    /\ globals = define_native(define_native(<<>>, 0, NameClock, "clock"),
                               1, NameSqrt, "sqrt")
    /\ closures = <<>>
    /\ upvalues = <<>>
    /\ result = "New"
    /\ stdout = <<>>
    /\ stderr = <<>>
    /\ parser = None
    /\ \E n \in 0..MaxLexemes :
       \E lexemes \in [1..n -> Lexemes] :
          scanner = [scanner |-> ScannerNew(Concat(lexemes)), token |-> None]

\* the last call returned the EOF token
ReturnedEOF == scanner.token # None /\ scanner.token.token_type = "EOF"

\* one call of scan_token by the parser, which stops at EOF; a panic aborts
\* the process
ScanToken ==
    /\ scanner # None
    /\ result = "New"
    /\ ~ReturnedEOF
    /\ LET returned == scan_token(scanner.scanner)
       IN  IF returned = Panicked
           THEN result' = "Panic" /\ UNCHANGED scanner
           ELSE scanner' = returned /\ UNCHANGED result
    /\ UNCHANGED <<mode, exit_code, parser, lines_read, frames, stack, open_upvalues,
                   globals, closures, upvalues, stdout, stderr>>

ScanNext == ScanToken

ScanSpec == ScanInit /\ [][ScanNext]_vars

-----------------------------------------------------------------------------
(* The VM where close_upvalues is at work: a function called from a block of *)
(* the script is about to return.  The block has k locals, the function m,   *)
(* and any of them are captured, in any order of capture.  The source is     *)
(*   { var a1; .. var ak; fun f() { var c1; .. var cm; fun g() {..} }  f(); } *)
(* with the slots of f and g left out.                                       *)

\* Locals of one frame.
MaxSlots == 2
\* Cells in the open list.
MaxCells == 3

\* the code of the script from the call on: the call, the Pop of its result,
\* the end of the block (end_scope: CloseUpvalue for a captured local, Pop for
\* another, from the top down) and the return of the script
BlockCode(k, captured) ==
    <<Byte("Call"), 0, Byte("Pop")>>
    \o [i \in 1..k |-> IF (k + 1 - i) \in captured
                       THEN Byte("CloseUpvalue") ELSE Byte("Pop")]
    \o <<Byte("Nil"), Byte("Return")>>

Ones(n) == [i \in 1..n |-> 1]

CloseInit ==
    /\ mode = "file"
    /\ exit_code = <<>>
    /\ lines_read = 1
    /\ globals = define_native(define_native(<<>>, 0, NameClock, "clock"),
                               1, NameSqrt, "sqrt")
    /\ result = "Running"
    /\ stdout = <<>>
    /\ stderr = <<>>
    /\ parser = None
    /\ scanner = None
    /\ \E k \in 0..MaxSlots, m \in 0..MaxSlots, n \in 0..MaxCells :
       \E locations \in [1..n -> (1..k) \cup ((k + 2)..(k + 1 + m))] :
          LET outer == {i \in 1..n : locations[i] <= k}
              inner == {i \in 1..n : locations[i] > k}
              cells(set) == SelectSeq([i \in 1..n |-> i], LAMBDA i : i \in set)
              script == Function(0, <<>>,
                                 BlockCode(k, {locations[i] : i \in outer}),
                                 <<>>, Ones(k + 5), 0)
              f == Function(0, NameF, <<Byte("Nil"), Byte("Return")>>,
                            <<>>, Ones(2), Cardinality(outer))
              g == Function(0, NameC, <<Byte("Nil"), Byte("Return")>>,
                            <<>>, Ones(2), Cardinality(inner))
          IN  /\ \A i, j \in 1..n : locations[i] = locations[j] => i = j
              /\ stack = <<ClosureV(1)>> \o [i \in 1..k |-> NumberV(i)]
                         \o <<ClosureV(2)>> \o [i \in 1..m |-> NumberV(k + 1 + i)]
                         \o <<NilV>>
              /\ frames = <<[function |-> script, ip |-> 2, first_slot |-> 0,
                             closure |-> 1],
                            [function |-> f, ip |-> 1, first_slot |-> k + 1,
                             closure |-> 2]>>
              /\ closures = <<ClosureNew(script),
                              [function |-> f, upvalues |-> cells(outer)],
                              [function |-> g, upvalues |-> cells(inner)]>>
              /\ upvalues = [i \in 1..n |-> UpvalueNew(locations[i])]
              /\ open_upvalues = [i \in 1..n |-> i]

CloseNext == Return \/ CloseUpvalue \/ Pop \/ Nil

CloseSpec == CloseInit /\ [][CloseNext]_vars

-----------------------------------------------------------------------------
(* compiler/mod.rs and compiler/rules.rs as the recursive descent they are: *)
(* the Parser reads the tokens the scanner returns, one by one.  `tokens`   *)
(* is what scan_token returns call after call before EOF, `at` the index    *)
(* of self.current among them, `ret` the value the last handler returned.   *)
(* Six fields are the history of the run: `syncs` has one entry for each    *)
(* call of synchronize, `turns` counts the turns of its loop, `opens` has   *)
(* one entry for each scope that is open, `scopes` one for each call of     *)
(* end_scope, `reads` one for each call of named_variable, and `stalled`    *)
(* tells that a turn of a loop over declarations consumed no token (the     *)
(* loop of the source would turn for ever; here it ends).                   *)

\* Parser::new over the tokens of a source
ParserOver(tokens, uninit) ==
    [tokens |-> tokens, at |-> 0, ret |-> 0, syncs |-> <<>>, turns |-> 0,
     opens |-> <<>>, scopes |-> <<>>, reads |-> <<>>, stalled |-> FALSE]
        @@ ParserNew(uninit)

\* self.current: after the last token the scanner returns EOF for ever
current(p) == IF p.at < Len(p.tokens) THEN p.tokens[p.at + 1] ELSE Token("EOF", <<>>)

\* the message an Error token carries, as text
ErrorText(token) ==
    IF token.value = UnterminatedString THEN "Unterminated String"
    ELSE "Unexpected Character"

\* Parser::error_at_current
error_at_current(p, message) == error_at(p, current(p), message)

\* the loop of Parser::advance: an Error token is reported and the next token
\* is scanned
RECURSIVE SkipErrors(_)
SkipErrors(p) ==
    IF current(p).token_type = "Error"
    THEN SkipErrors([error_at_current(p, ErrorText(current(p))) EXCEPT !.at = @ + 1])
    ELSE p

\* Parser::advance
AdvanceToken(p) ==
    SkipErrors([p EXCEPT !.previous = current(p),
                         !.at = IF @ < Len(p.tokens) THEN @ + 1 ELSE @])

\* Parser::check
check(p, token_type) == current(p).token_type = token_type

\* Parser::match: the Parser after it; it returns check(p, token_type)
r_match(p, token_type) == IF check(p, token_type) THEN AdvanceToken(p) ELSE p

\* Parser::consume
consume(p, token_type, message) ==
    IF check(p, token_type) THEN AdvanceToken(p) ELSE error_at_current(p, message)

\* enum Precedence: the u8 of a level is its place in this list, from 0
Precedences ==
    <<"None", "Assignment", "Or", "And", "Equality", "Comparision", "Term", "Factor",
      "Unary", "Call", "Primary">>

Precedence(level) == (CHOOSE i \in 1..Len(Precedences) : Precedences[i] = level) - 1

\* impl Add<u8> for Precedence
PrecedenceAdd(precedence, rhs) == (precedence + rhs) % 11

\* ParseRule::new; a rule that is None is the empty string
ParseRule(prefix, infix, precedence) ==
    [prefix |-> prefix, infix |-> infix, precedence |-> Precedence(precedence)]

\* ParseRule::get_rule
get_rule(token_type) ==
    CASE token_type = "LeftParen" -> ParseRule("grouping", "call", "Call")
      [] token_type = "Minus" -> ParseRule("unary", "binary", "Term")
      [] token_type = "Plus" -> ParseRule("", "binary", "Term")
      [] token_type \in {"Slash", "Star"} -> ParseRule("", "binary", "Factor")
      [] token_type = "Bang" -> ParseRule("unary", "", "None")
      [] token_type \in {"BangEqual", "EqualEqual"} -> ParseRule("", "binary", "Equality")
      [] token_type \in {"Greater", "GreaterEqual", "Less", "LessEqual"} ->
            ParseRule("", "binary", "Comparision")
      [] token_type = "Idenitifier" -> ParseRule("variable", "", "None")
      [] token_type = "String" -> ParseRule("string", "", "None")
      [] token_type = "Number" -> ParseRule("number", "", "None")
      [] token_type = "And" -> ParseRule("", "and", "And")
      [] token_type = "Or" -> ParseRule("", "or", "Or")
      [] token_type \in {"False", "Nil", "True"} -> ParseRule("literal", "", "None")
      [] token_type \in {"RightParen", "LeftBrace", "RightBrace", "Comma", "Dot",
                         "Semicolon", "Equal", "Class", "Else", "For", "Fun", "If",
                         "Print", "Return", "Super", "This", "Var", "While", "Error",
                         "EOF"} -> ParseRule("", "", "None")

\* str::parse::<f64> on the digits of a Number token
RECURSIVE NumberOf(_)
NumberOf(digits) ==
    IF digits = <<>> THEN 0
    ELSE 10 * NumberOf(SubSeq(digits, 1, Len(digits) - 1)) + (Last(digits) - 48)

\* Parser::binary: the opcodes of the operator
BinaryCode(operator_type) ==
    CASE operator_type = "BangEqual" -> <<Byte("Equal"), Byte("Not")>>
      [] operator_type = "EqualEqual" -> <<Byte("Equal")>>
      [] operator_type = "Greater" -> <<Byte("Greater")>>
      [] operator_type = "GreaterEqual" -> <<Byte("Less"), Byte("Not")>>
      [] operator_type = "Less" -> <<Byte("Less")>>
      [] operator_type = "LessEqual" -> <<Byte("Greater"), Byte("Not")>>
      [] operator_type = "Plus" -> <<Byte("Add")>>
      [] operator_type = "Minus" -> <<Byte("Subtract")>>
      [] operator_type = "Star" -> <<Byte("Multiply")>>
      [] operator_type = "Slash" -> <<Byte("Divide")>>
      [] OTHER -> <<>>

\* the index Parser::emit_jump returns when called in p
JumpAt(p) == CodeLen(p) + 1

RECURSIVE ParsePrecedence(_, _)
RECURSIVE InfixLoop(_, _, _)
RECURSIVE ArgumentLoop(_, _)

\* Parser::expression
ParseExpression(p) == ParsePrecedence(p, Precedence("Assignment"))

\* the end of Parser::named_variable: the assignment if an = follows and the
\* caller allows it, else the read
VariableAccess(p, get_op, set_op, arg, can_assign) ==
    IF can_assign /\ check(p, "Equal")
    THEN emit(ParseExpression(AdvanceToken(p)), <<Byte(set_op), as_u8(arg)>>)
    ELSE emit(p, <<Byte(get_op), as_u8(arg)>>)

\* the locals in use and the upvalues of a chain of compilers
Levels(cs) ==
    [k \in 1..Len(cs) |-> [locals |-> SubSeq(cs[k].locals, 1, cs[k].local_count),
                           upvalues |-> cs[k].upvalues]]

\* The entry of the history for a call of named_variable: the name, the
\* chain of compilers before and after the resolution, the get instruction
\* chosen and its operand, the constant of the operand (the name of a global),
\* whether a resolution failed and the diagnostic written for it
Resolution(p, resolved, name, get_op, arg, failed) ==
    [resolved EXCEPT !.reads = Append(@,
        [name |-> name.value,
         before |-> Levels(p.compilers),
         after |-> Levels(resolved.compilers),
         get_op |-> get_op,
         arg |-> arg,
         constant |-> IF get_op = "GetGlobal"
                      THEN At(compiler(resolved).function.chunk.constants, arg)
                      ELSE NilV,
         failed |-> failed,
         message |-> IF Len(resolved.eprint) > Len(p.eprint)
                     THEN Last(resolved.eprint).fmt ELSE ""])]

\* Parser::named_variable once resolve_upvalue has returned: an upvalue, else a
\* global
NamedUpvalue(p, p1, name, can_assign, upvalue) ==
    IF Unwrapped(upvalue.res) # 0 - 1
    THEN VariableAccess(Resolution(p, unwrap_err([p1 EXCEPT !.compilers = upvalue.cs],
                                                 upvalue.res),
                                   name, "GetUpvalue", Unwrapped(upvalue.res),
                                   upvalue.res.t = "Err"),
                        "GetUpvalue", "SetUpvalue", Unwrapped(upvalue.res), can_assign)
    ELSE VariableAccess(Resolution(p, idenitifier_constant(
                                          [p1 EXCEPT !.compilers = upvalue.cs], name),
                                   name, "GetGlobal",
                                   MadeConstant([p1 EXCEPT !.compilers = upvalue.cs]),
                                   FALSE),
                        "GetGlobal", "SetGlobal",
                        MadeConstant([p1 EXCEPT !.compilers = upvalue.cs]),
                        can_assign)

\* Parser::named_variable once resolve_local has returned: the local, else
\* what resolve_upvalue finds
NamedLocal(p, name, can_assign, local) ==
    IF Unwrapped(local) # 0 - 1
    THEN VariableAccess(Resolution(p, unwrap_err(p, local), name, "GetLocal",
                                   Unwrapped(local), local.t = "Err"),
                        "GetLocal", "SetLocal", Unwrapped(local), can_assign)
    ELSE NamedUpvalue(p, unwrap_err(p, local), name, can_assign,
                      resolve_upvalue(p.compilers, Len(p.compilers), name.value))

\* Parser::named_variable
ParseNamedVariable(p, name, can_assign) ==
    NamedLocal(p, name, can_assign, resolve_local(compiler(p), name.value))

\* Parser::argument_list after an argument, arg_count arguments having been
\* parsed before it; ret is the count it returns (a u8)
ArgumentNext(parsed, arg_count) ==
    IF check(parsed, "Comma")
    THEN ArgumentLoop(AdvanceToken(parsed), as_u8(arg_count + 1))
    ELSE [parsed EXCEPT !.ret = as_u8(arg_count + 1)]

ArgumentChecked(parsed, arg_count) ==
    IF arg_count = 255 THEN error(parsed, "Can't have more than 255 arguments.")
    ELSE parsed

\* the loop of Parser::argument_list
ArgumentLoop(p, arg_count) ==
    ArgumentNext(ArgumentChecked(ParseExpression(p), arg_count), arg_count)

\* Parser::argument_list
ParseArguments(p) ==
    consume(IF check(p, "RightParen") THEN [p EXCEPT !.ret = 0] ELSE ArgumentLoop(p, 0),
            "RightParen", "Expect ')' after arguments.")

\* Parser::call
CallEmit(listed) == emit(listed, <<Byte("Call"), listed.ret>>)

ParseCall(p) == CallEmit(ParseArguments(p))

\* Parser::grouping
ParseGrouping(p) ==
    consume(ParseExpression(p), "RightParen", "Expect ')' after expression.")

\* Parser::unary
UnaryEmit(operand, operator_type) ==
    CASE operator_type = "Minus" -> emit(operand, <<Byte("Negate")>>)
      [] operator_type = "Bang" -> emit(operand, <<Byte("Not")>>)
      [] OTHER -> operand

ParseUnary(p) ==
    UnaryEmit(ParsePrecedence(p, Precedence("Unary")), p.previous.token_type)

\* binary with the right operand parsed at the level of the operator
ParseBinary_right(p) ==
    emit(ParsePrecedence(p, get_rule(p.previous.token_type).precedence),
         BinaryCode(p.previous.token_type))

\* Parser::binary
ParseBinary(p) ==
    emit(ParsePrecedence(p, PrecedenceAdd(get_rule(p.previous.token_type).precedence, 1)),
         BinaryCode(p.previous.token_type))

\* Parser::number, Parser::string and Parser::literal
ParseNumber(p) == EmitConstant(p, NumberV(NumberOf(p.previous.value)))

ParseString(p) ==
    EmitConstant(p, StringV(SubSeq(p.previous.value, 2, Len(p.previous.value) - 1)))

ParseLiteral(p) ==
    CASE p.previous.token_type = "False" -> emit(p, <<Byte("False")>>)
      [] p.previous.token_type = "Nil" -> emit(p, <<Byte("Nil")>>)
      [] p.previous.token_type = "True" -> emit(p, <<Byte("True")>>)
      [] OTHER -> p

\* Parser::and
ParseAnd(p) ==
    PatchJump(ParsePrecedence(emit(EmitJump(p, Byte("JumpIfFalse")), <<Byte("Pop")>>),
                              Precedence("And")),
              JumpAt(p))

\* Parser::or, else_jump having been emitted
OrRight(jumped, else_jump) ==
    PatchJump(ParsePrecedence(emit(PatchJump(EmitJump(jumped, Byte("Jump")), else_jump),
                                   <<Byte("Pop")>>),
                              Precedence("Or")),
              JumpAt(jumped))

ParseOr(p) == OrRight(EmitJump(p, Byte("JumpIfFalse")), JumpAt(p))

\* the call of a prefix rule
PrefixRule(rule, p, can_assign) ==
    CASE rule = "grouping" -> ParseGrouping(p)
      [] rule = "unary" -> ParseUnary(p)
      [] rule = "variable" -> ParseNamedVariable(p, p.previous, can_assign)
      [] rule = "string" -> ParseString(p)
      [] rule = "number" -> ParseNumber(p)
      [] rule = "literal" -> ParseLiteral(p)

\* the call of an infix rule; unwrap panics on a rule that is None
InfixRule(rule, p, can_assign) ==
    CASE rule = "call" -> ParseCall(p)
      [] rule = "binary" -> ParseBinary(p)
      [] rule = "and" -> ParseAnd(p)
      [] rule = "or" -> ParseOr(p)
      [] rule = "" -> [p EXCEPT !.aborted = TRUE]

\* one turn of the while loop of Parser::parse_precendence, after its advance
InfixTurn(advanced, can_assign) ==
    InfixRule(get_rule(advanced.previous.token_type).infix, advanced, can_assign)

\* the while loop of Parser::parse_precendence
InfixLoop(p, precendence, can_assign) ==
    IF ~p.aborted /\ precendence <= get_rule(current(p).token_type).precedence
    THEN InfixLoop(InfixTurn(AdvanceToken(p), can_assign), precendence, can_assign)
    ELSE p

\* the end of Parser::parse_precendence
InvalidTarget(parsed, can_assign) ==
    IF can_assign /\ check(parsed, "Equal")
    THEN error(AdvanceToken(parsed), "Invalid assignment target.")
    ELSE parsed

\* Parser::parse_precendence after its advance
PrefixTurn(advanced, precendence, can_assign) ==
    IF get_rule(advanced.previous.token_type).prefix = ""
    THEN error(advanced, "Expect expression.")
    ELSE InvalidTarget(InfixLoop(PrefixRule(get_rule(advanced.previous.token_type).prefix,
                                            advanced, can_assign),
                                 precendence, can_assign),
                       can_assign)

\* Parser::parse_precendence
ParsePrecedence(p, precendence) ==
    PrefixTurn(AdvanceToken(p), precendence, precendence <= Precedence("Assignment"))

\* Parser::parse_variable; ret is the index it returns
VariableIndex(declared) ==
    IF compiler(declared).scope_depth > 0 THEN [declared EXCEPT !.ret = 0]
    ELSE [idenitifier_constant(declared, declared.previous) EXCEPT
            !.ret = MadeConstant(declared)]

ParseVariableName(p, error_message) ==
    VariableIndex(declare_variable(consume(p, "Idenitifier", error_message)))

\* Parser::define_variable with the index parse_variable returned
DefineParsed(p) == define_variable(p, p.ret)

\* the tokens in front of which Parser::synchronize returns
StatementStarts == {"Class", "Fun", "Var", "For", "If", "While", "Print", "Return"}

\* the loop of Parser::synchronize
RECURSIVE SynchronizeLoop(_)
SynchronizeLoop(p) ==
    IF current(p).token_type = "EOF" THEN p
    ELSE IF p.previous.token_type = "Semicolon" THEN p
    ELSE IF current(p).token_type \in StatementStarts THEN p
    ELSE SynchronizeLoop([AdvanceToken(p) EXCEPT !.turns = @ + 1])

\* The entry of the history for a call of synchronize: the diagnostics written
\* before the call, the tokens around the place where it returned, the
\* tokens it consumed and the turns of its loop
Synchronized(p, stopped) ==
    [stopped EXCEPT !.syncs = Append(@, [errors |-> Len(p.eprint),
                                         previous |-> stopped.previous.token_type,
                                         current |-> current(stopped).token_type,
                                         skipped |-> stopped.at - p.at,
                                         turns |-> stopped.turns - p.turns])]

\* Parser::synchronize
ParseSynchronize(p) == Synchronized(p, SynchronizeLoop([p EXCEPT !.panic_mode = FALSE]))

\* Parser::begin_scope, and the entry of the history it opens
ScopeBegin(p) ==
    [begin_scope(p) EXCEPT !.opens = Append(@, [local_count |-> compiler(p).local_count,
                                                scope_depth |-> compiler(p).scope_depth])]

\* The entry of the history for a call of end_scope: what begin_scope found,
\* the locals above it when the scope ends (top-down, TRUE for a captured one),
\* the code end_scope wrote and what it left
ScopeEnded(p, ended) ==
    [ended EXCEPT
        !.opens = SubSeq(@, 1, Len(@) - 1),
        !.scopes = Append(@,
            [opened |-> Last(p.opens),
             captured |-> [i \in 1..(compiler(p).local_count - Last(p.opens).local_count) |->
                              LocalAt(compiler(p), compiler(p).local_count - i).is_captured],
             code |-> SubSeq(compiler(ended).function.chunk.code, CodeLen(p) + 1,
                             CodeLen(ended)),
             inner_depth |-> compiler(p).scope_depth,
             local_count |-> compiler(ended).local_count,
             scope_depth |-> compiler(ended).scope_depth,
             had_error |-> p.had_error])]

\* Parser::end_scope
ScopeEnd(p) == ScopeEnded(p, end_scope(p))

RECURSIVE ParseDeclaration(_)
RECURSIVE ParseStatement(_)
RECURSIVE BlockLoop(_)
RECURSIVE ParameterLoop(_)

\* Parser::block
ParseBlock(p) == consume(BlockLoop(p), "RightBrace", "Expect '}' after block.")

\* one turn of a loop over declarations: it is over when the turn consumed no
\* token
Turn(p, declared) ==
    IF declared.at = p.at THEN [declared EXCEPT !.stalled = TRUE] ELSE declared

\* the while loop of Parser::block
BlockNext(declared) == IF declared.stalled THEN declared ELSE BlockLoop(declared)

\* the loop of a block that goes on at the end of the source
BlockLoop_past_end(p) ==
    IF check(p, "RightBrace") THEN p
    ELSE BlockNext(Turn(p, ParseDeclaration(p)))

BlockLoop(p) ==
    IF check(p, "RightBrace") \/ check(p, "EOF") THEN p
    ELSE BlockNext(Turn(p, ParseDeclaration(p)))

\* the loop of Parser::function over the parameters
ParameterCount(p) ==
    IF compiler(p).function.arity + 1 > 255
    THEN error_at_current([p EXCEPT !.compilers[Len(p.compilers)].function.arity = @ + 1],
                          "Can't have more than 255 parameters.")
    ELSE [p EXCEPT !.compilers[Len(p.compilers)].function.arity = @ + 1]

ParameterNext(defined) ==
    IF check(defined, "Comma") THEN ParameterLoop(AdvanceToken(defined)) ELSE defined

ParameterLoop(p) ==
    ParameterNext(DefineParsed(ParseVariableName(ParameterCount(p),
                                                 "Expect parameter name.")))

\* Parser::function
FunctionParameters(inner) ==
    IF check(inner, "RightParen") THEN inner ELSE ParameterLoop(inner)

ParseFunction(p, function_type) ==
    end_compiler(ParseBlock(
        consume(consume(FunctionParameters(
                            consume(begin_scope(init_compiler(p, function_type)),
                                    "LeftParen", "Expect '(' after function name.")),
                        "RightParen", "Expect ')' after parameters."),
                "LeftBrace", "Expect '{' before function body.")))

\* Parser::fun_declaration
FunDefine(parsed) == define_variable(ParseFunction(parsed, "Function"), parsed.ret)

ParseFun(p) == FunDefine(mark_initialized(ParseVariableName(p, "Expect function name.")))

\* Parser::var_declaration
VarDefine(parsed) ==
    define_variable(consume(IF check(parsed, "Equal")
                            THEN ParseExpression(AdvanceToken(parsed))
                            ELSE emit(parsed, <<Byte("Nil")>>),
                            "Semicolon", "Expect ';' after variable declaration."),
                    parsed.ret)

ParseVar(p) == VarDefine(ParseVariableName(p, "Expect variable name."))

\* Parser::expression_statement
ParseExpressionStatement(p) ==
    emit(consume(ParseExpression(p), "Semicolon", "Expect ';' after expression."),
         <<Byte("Pop")>>)

\* Parser::print_statement
ParsePrint(p) ==
    emit(consume(ParseExpression(p), "Semicolon", "Expect ';' after value."),
         <<Byte("Print")>>)

\* Parser::return_statement
ReturnValue(p) ==
    IF check(p, "Semicolon") THEN EmitReturn(AdvanceToken(p))
    ELSE emit(consume(ParseExpression(p), "Semicolon", "Expect ';' after return value."),
              <<Byte("Return")>>)

ParseReturn(p) ==
    ReturnValue(IF compiler(p).function_type = "Script"
                THEN error(p, "Can't return from top-level code.")
                ELSE p)

\* Parser::if_statement
IfElseBranch(patched) ==
    IF check(patched, "Else") THEN ParseStatement(AdvanceToken(patched)) ELSE patched

IfElse(then_branch, then_jump) ==
    PatchJump(IfElseBranch(emit(PatchJump(EmitJump(then_branch, Byte("Jump")), then_jump),
                                <<Byte("Pop")>>)),
              JumpAt(then_branch))

IfThen(condition) ==
    IfElse(ParseStatement(emit(EmitJump(condition, Byte("JumpIfFalse")), <<Byte("Pop")>>)),
           JumpAt(condition))

ParseIf(p) ==
    IfThen(consume(ParseExpression(consume(p, "LeftParen", "Expect '(' after 'if'.")),
                   "RightParen", "Expect ')' after 'if'."))

\* Parser::while_statement
WhileBody(condition, loop_start) ==
    emit(PatchJump(EmitLoop(ParseStatement(emit(EmitJump(condition, Byte("JumpIfFalse")),
                                                <<Byte("Pop")>>)),
                            loop_start),
                   JumpAt(condition)),
         <<Byte("Pop")>>)

ParseWhile(p) ==
    WhileBody(consume(ParseExpression(consume(p, "LeftParen", "Expect '(' after 'while'.")),
                      "RightParen", "Expect ')' after condition."),
              CodeLen(p))

\* Parser::for_statement, from its end to its start; exit_jump is -1 when
\* there is no condition
ForEnd(looped, exit_jump) ==
    ScopeEnd(IF exit_jump # 0 - 1
             THEN emit(PatchJump(looped, exit_jump), <<Byte("Pop")>>)
             ELSE looped)

ForBody(increment, loop_start, exit_jump) ==
    ForEnd(EmitLoop(ParseStatement(increment), loop_start), exit_jump)

ForIncrement(condition, loop_start, exit_jump) ==
    IF check(condition, "RightParen")
    THEN ForBody(AdvanceToken(condition), loop_start, exit_jump)
    ELSE ForBody(PatchJump(EmitLoop(consume(emit(ParseExpression(
                                                    EmitJump(condition, Byte("Jump"))),
                                                 <<Byte("Pop")>>),
                                            "RightParen", "Expect ')' after for clauses"),
                                    loop_start),
                           JumpAt(condition)),
                 CodeLen(condition) + 3, exit_jump)

ForExit(parsed, loop_start) ==
    ForIncrement(emit(EmitJump(parsed, Byte("JumpIfFalse")), <<Byte("Pop")>>),
                 loop_start, JumpAt(parsed))

ForCondition(initializer) ==
    IF check(initializer, "Semicolon")
    THEN ForIncrement(AdvanceToken(initializer), CodeLen(initializer), 0 - 1)
    ELSE ForExit(consume(ParseExpression(initializer), "Semicolon",
                         "Expect ';' after loop condition"),
                 CodeLen(initializer))

ForInitializer(opened) ==
    IF check(opened, "Semicolon") THEN AdvanceToken(opened)
    ELSE IF check(opened, "Var") THEN ParseVar(AdvanceToken(opened))
    ELSE ParseExpressionStatement(opened)

ParseFor(p) ==
    ForCondition(ForInitializer(consume(ScopeBegin(p), "LeftParen",
                                        "Expect '(' after 'for'.")))

\* Parser::statement
ParseStatement(p) ==
    CASE check(p, "Print") -> ParsePrint(AdvanceToken(p))
      [] check(p, "LeftBrace") -> ScopeEnd(ParseBlock(ScopeBegin(AdvanceToken(p))))
      [] check(p, "If") -> ParseIf(AdvanceToken(p))
      [] check(p, "Return") -> ParseReturn(AdvanceToken(p))
      [] check(p, "While") -> ParseWhile(AdvanceToken(p))
      [] check(p, "For") -> ParseFor(AdvanceToken(p))
      [] OTHER -> ParseExpressionStatement(p)

\* Parser::declaration
DeclarationSync(declared) ==
    IF declared.panic_mode THEN ParseSynchronize(declared) ELSE declared

ParseDeclaration(p) ==
    DeclarationSync(IF check(p, "Fun") THEN ParseFun(AdvanceToken(p))
                   ELSE IF check(p, "Var") THEN ParseVar(AdvanceToken(p))
                   ELSE ParseStatement(p))

-----------------------------------------------------------------------------
(* The sources of the Parser: the tokens of a correct scan of a text, each  *)
(* written as a word.  Every token is on line 1.                            *)

\* the words of the sources: the word, its TokenType and its lexeme
Words ==
    {<<"(", "LeftParen", <<"(">>>>, <<")", "RightParen", <<")">>>>,
     <<"{", "LeftBrace", <<"{">>>>, <<"}", "RightBrace", <<"}">>>>,
     <<",", "Comma", <<",">>>>, <<"-", "Minus", <<"-">>>>, <<"+", "Plus", <<"+">>>>,
     <<";", "Semicolon", <<";">>>>, <<"/", "Slash", <<"/">>>>, <<"*", "Star", <<"*">>>>,
     <<"!", "Bang", <<"!">>>>, <<"!=", "BangEqual", <<"!", "=">>>>,
     <<"=", "Equal", <<"=">>>>, <<"==", "EqualEqual", <<"=", "=">>>>,
     <<">", "Greater", <<">">>>>, <<">=", "GreaterEqual", <<">", "=">>>>,
     <<"<", "Less", <<"<">>>>, <<"<=", "LessEqual", <<"<", "=">>>>,
     <<"and", "And", <<"a", "n", "d">>>>, <<"class", "Class", <<"c", "l", "a", "s", "s">>>>,
     <<"else", "Else", <<"e", "l", "s", "e">>>>, <<"false", "False", <<"f", "a", "l", "s", "e">>>>,
     <<"for", "For", <<"f", "o", "r">>>>, <<"fun", "Fun", <<"f", "u", "n">>>>,
     <<"if", "If", <<"i", "f">>>>, <<"nil", "Nil", <<"n", "i", "l">>>>,
     <<"or", "Or", <<"o", "r">>>>, <<"print", "Print", <<"p", "r", "i", "n", "t">>>>,
     <<"return", "Return", <<"r", "e", "t", "u", "r", "n">>>>,
     <<"true", "True", <<"t", "r", "u", "e">>>>, <<"var", "Var", <<"v", "a", "r">>>>,
     <<"while", "While", <<"w", "h", "i", "l", "e">>>>,
     <<"a", "Idenitifier", <<"a">>>>, <<"b", "Idenitifier", <<"b">>>>,
     <<"c", "Idenitifier", <<"c">>>>, <<"f", "Idenitifier", <<"f">>>>,
     <<"g", "Idenitifier", <<"g">>>>, <<"x", "Idenitifier", <<"x">>>>,
     <<"0", "Number", <<"0">>>>, <<"1", "Number", <<"1">>>>, <<"2", "Number", <<"2">>>>,
     <<"3", "Number", <<"3">>>>, <<"4", "Number", <<"4">>>>,
     <<"\"\"", "String", <<"\"", "\"">>>>, <<"\"a\"", "String", <<"\"", "a", "\"">>>>}

\* the token of a word; the word @ is the Error token of an unexpected
\* character
Word(w) ==
    IF w = "@" THEN Token("Error", UnexpectedCharacter)
    ELSE LET word == CHOOSE word \in Words : word[1] = w
         IN  Token(word[2], Str(word[3]))

\* the tokens of a text given word by word
Source(words) == [i \in 1..Len(words) |-> Word(words[i])]

\* Tokens of a source made of arbitrary words.
MaxTokens == 3

\* the words the arbitrary sources are made of
Alphabet == {"var", "x", "=", "1", ";", "{", "}", "(", ")", "print", "+", "fun", "@"}

\* sources with a meaning: operators of two levels, unary operators and calls,
\* the logical operators, if with and without else, scopes and closures, loops
BinaryWords == {"+", "-", "*", "/", "==", "!=", "<", "<=", ">", ">="}

ValueWords == {"nil", "true", "false", "0", "1", "\"\"", "\"a\""}

Programs ==
    {<<"print", "(", "1", "+", "2", ")", "*", "3", "-", "4", "/", "2", ";">>,
     <<"print", "!", "1", "==", "2", ";">>,
     <<"print", "-", "1", "-", "2", ";">>,
     <<"fun", "f", "(", ")", "{", "return", "1", ";", "}", "print", "-", "f", "(", ")", ";">>,
     <<"fun", "f", "(", "a", ",", "b", ")", "{", "return", "a", "-", "b", ";", "}",
       "print", "f", "(", "3", ",", "1", ")", ";">>,
     <<"print", "false", "and", "1", "or", "2", ";">>,
     <<"print", "1", "or", "2", "==", "3", ";">>,
     <<"print", "nil", "and", "nil", "==", "nil", ";">>,
     <<"var", "x", ";", "print", "x", "=", "false", "or", "2", ";", "print", "x", ";">>,
     <<"var", "a", ";", "var", "b", ";", "var", "c", ";", "a", "*", "b", "=", "c", ";">>,
     <<"var", "a", ";", "var", "b", ";", "a", "=", "b", "=", "1", ";", "print", "a", ";">>,
     <<"{", "var", "a", "=", "1", ";", "{", "var", "a", "=", "2", ";", "print", "a", ";",
       "}", "print", "a", ";", "}">>,
     <<"var", "a", "=", "1", ";", "{", "var", "a", "=", "a", ";", "}">>,
     <<"var", "a", "=", "1", ";", "{", "var", "b", "=", "a", ";", "a", "=", "2", ";",
       "b", "=", "3", ";", "print", "a", "+", "b", ";", "}">>,
     <<"var", "a", "=", "1", ";", "fun", "f", "(", ")", "{", "var", "a", "=", "2", ";",
       "fun", "g", "(", ")", "{", "print", "a", ";", "}", "g", "(", ")", ";", "}",
       "f", "(", ")", ";">>,
     <<"var", "a", "=", "1", ";", "fun", "f", "(", ")", "{", "print", "a", ";", "}",
       "f", "(", ")", ";">>,
     <<"fun", "f", "(", ")", "{", "var", "a", "=", "2", ";", "fun", "g", "(", ")", "{",
       "fun", "f", "(", ")", "{", "print", "a", ";", "}", "f", "(", ")", ";", "}",
       "g", "(", ")", ";", "}", "f", "(", ")", ";">>,
     <<"{", "var", "a", "=", "1", ";", "var", "b", ";", "fun", "f", "(", ")", "{",
       "a", "=", "2", ";", "print", "a", ";", "}", "f", "(", ")", ";", "}", "print", "3", ";">>,
     <<"{", "var", "a", "=", "0", ";", "while", "(", "a", "<", "2", ")", "a", "=", "a",
       "+", "1", ";", "print", "a", ";", "}">>,
     <<"for", "(", "var", "a", "=", "0", ";", "a", "<", "2", ";", "a", "=", "a", "+", "1",
       ")", "{", "var", "b", "=", "a", ";", "print", "b", ";", "}", "print", "3", ";">>,
     <<"{", "var", "a", ";", "{", "var", "b", "var", "c", ";", "}", "}">>}
        \cup {<<"print", "1", op1, "2", op2, "3", ";">> :
                <<op1, op2>> \in BinaryWords \X BinaryWords}
        \cup {<<"if", "(", e, ")", "print", "1", ";", "else", "print", "2", ";",
                "print", "3", ";">> : e \in ValueWords}
        \cup {<<"if", "(", e, ")", "print", "1", ";", "print", "3", ";">> : e \in ValueWords}
        \cup {<<"{", "var", "a", "=", e, ";", "if", "(", "a", ")", "{", "var", "b", "=", "1", ";",
                "print", "b", ";", "}", "else", "print", "2", ";", "print", "a", ";", "}">> :
                e \in ValueWords}
        \cup {<<"var", "x", "=", "0", ";", "print", e, op, "(", "x", "=", "1", ")", ";",
                "print", "x", ";">> : <<e, op>> \in ValueWords \X {"and", "or"}}

\* The long sources:  { var l1; ... var lK;  and one of these ends.  The Parser
\* starts where it is after the K declarations, inside the block.
Tails ==
    {<<"}">>,
     <<"{", "var", "a", ";", "}", "}">>,
     <<"var", "a", ";", "{", "var", "b", ";", "}", "}">>,
     <<"var", "a", ";", "var", "b", ";", "{", "var", "c", ";", "}", "}">>,
     <<"{", "var", "a", ";", "{", "var", "b", ";", "}", "}", "}">>}

LocalsTokens(K) ==
    <<Word("{")>> \o [i \in 1..(3 * K) |->
                        CASE i % 3 = 1 -> Word("var")
                          [] i % 3 = 2 -> Token("Idenitifier", LocalName((i + 1) \div 3))
                          [] OTHER -> Word(";")]

ParseLocals(K, tail, uninit) ==
    [source |-> "locals", pieces |-> 0,
     twins |-> <<[tokens |-> LocalsTokens(K) \o Source(tail), at |-> 3 * K + 1,
                  opens |-> <<[local_count |-> 1, scope_depth |-> 0]>>, nest |-> <<>>]
                 @@ LocalsSource(K, uninit)
                 @@ ParserOver(<<>>, uninit)>>]

\* Parser::new and the first advance of Parser::compile
ParseStart(source, tokens, uninit) ==
    [source |-> source, pieces |-> 0,
     twins |-> <<SkipErrors(ParserOver(tokens, uninit))>>]

ParseInit ==
    /\ mode = "file"
    /\ exit_code = <<>>
    /\ lines_read = 1
    /\ frames = <<>>
    /\ stack = <<>>
    /\ open_upvalues = <<>>
    /\ globals = define_native(define_native(<<>>, 0, NameClock, "clock"),
                               1, NameSqrt, "sqrt")
    /\ closures = <<>>
    /\ upvalues = <<>>
    /\ result = "New"
    /\ stdout = <<>>
    /\ scanner = None
    /\ \E uninit \in Uninitialized :
          \/ \E words \in Programs :
                parser = ParseStart("program", Source(words), uninit)
          \/ \E n \in 0..MaxTokens : \E words \in [1..n -> Alphabet] :
                parser = ParseStart("tokens", Source(words), uninit)
          \/ \E K \in (U8_MAX - Margin)..U8_MAX : \E tail \in Tails :
                parser = ParseLocals(K, tail, uninit)
    /\ stderr = Twin1.eprint

\* the rest of the block statement a long source starts in: the block from
\* the next declaration on, end_scope and the end of the declaration
BlockRest ==
    /\ parser # None
    /\ result = "New"
    /\ Twin1.opens # <<>>
    /\ ~Twin1.stalled
    /\ parser' = [parser EXCEPT !.twins =
                    <<Turn(Twin1, DeclarationSync(ScopeEnd(ParseBlock(Twin1))))>>]
    /\ stderr' = parser'.twins[1].eprint
    /\ UNCHANGED <<mode, exit_code, scanner, lines_read, frames, stack, open_upvalues,
                   globals, closures, upvalues, result, stdout>>

\* one turn of the loop of Parser::compile: match(EOF) is false
CompileDeclaration ==
    /\ parser # None
    /\ result = "New"
    /\ Twin1.opens = <<>>
    /\ ~check(Twin1, "EOF")
    /\ ~Twin1.stalled
    /\ parser' = [parser EXCEPT !.twins = <<Turn(Twin1, ParseDeclaration(Twin1))>>]
    /\ stderr' = parser'.twins[1].eprint
    /\ UNCHANGED <<mode, exit_code, scanner, lines_read, frames, stack, open_upvalues,
                   globals, closures, upvalues, result, stdout>>

\* the end of Parser::compile, match(EOF) being true, and what VM::interpret
\* does with the function
CompileReturn ==
    /\ parser # None
    /\ result = "New"
    /\ Twin1.opens = <<>>
    /\ ~Twin1.stalled
    /\ check(Twin1, "EOF")
    /\ LET p1 == EndCompile(Twin1)
           heap == Append(closures, ClosureNew(p1.compiled))
       IN  /\ parser' = [parser EXCEPT !.twins = <<p1>>]
           /\ IF p1.compiled = None
              THEN /\ result' = "CompileError"
                   /\ UNCHANGED <<frames, stack, closures>>
              ELSE /\ closures' = heap
                   /\ call(frames, push(stack, ClosureV(Len(heap))), heap, Len(heap), 0)
                   /\ result' = IF CallOk(heap, Len(heap), 0) THEN "Running" ELSE "Panic"
    /\ UNCHANGED <<mode, exit_code, scanner, lines_read, open_upvalues, globals, upvalues,
                   stdout, stderr>>

ParseNext ==
    \/ BlockRest \/ CompileDeclaration \/ CompileReturn
    \/ Subtract \/ Multiply \/ Divide \/ Add
    \/ True \/ False \/ Nil
    \/ Greater \/ Less \/ Equal
    \/ Constant \/ Negate \/ Not
    \/ DefineGlobal \/ GetGlobal \/ SetGlobal
    \/ GetLocal \/ SetLocal
    \/ Jump \/ JumpIfFalse \/ Loop
    \/ Call \/ Closure
    \/ GetUpvalue \/ SetUpvalue \/ CloseUpvalue
    \/ Return \/ Pop \/ OpPrint

ParseSpec == ParseInit /\ [][ParseNext]_vars
-----------------------------------------------------------------------------
(* Properties. *)

\* the script of the first source handed to interpret is function f
Script(f) == Len(closures) >= 1 /\ closures[1].function = f

\* the script of the first source is the compiled form of `source`
Ran(source) == Script(compile(source))

\* interpret has returned
Returned == result \in {"Ok", "CompileError", "RuntimeError"}

\* the strings "1", "2", "3", "true", "false"
Str1 == <<49>>
Str2 == <<50>>
Str3 == <<51>>
StrTrue == <<116, 114, 117, 101>>
StrFalse == <<102, 97, 108, 115, 101>>

\* C1: run on the makeCounter program, with c = makeCounter(), the three calls
\* c() return 1, 2 and 3 and no runtime error occurs: interpret returns Ok
\* having printed 1, 2, 3.
C1_CounterCounts ==
    (Ran(CounterSource) /\ result # "Running")
        => (result = "Ok" /\ stdout = <<Str1, Str2, Str3>>)

\* a value is falsey by the rule of the specification: Nil or Bool(false)
Falsey(value) == value.t = "Nil" \/ (value.t = "Bool" /\ ~value.b)

\* C2: Not pushes true exactly for Nil and Bool(false), and JumpIfFalse jumps
\* exactly for Nil and Bool(false); every Number and every String is truthy.
C2_Truthiness ==
    [][/\ (Running /\ instruction = "Not")
            => Last(stack') = BoolV(Falsey(peek(0)))
       /\ (Running /\ instruction = "JumpIfFalse")
            => Last(frames').ip =
                    frame.ip + 3 + (IF Falsey(peek(0)) THEN read_short ELSE 0)]_vars

\* C3: after any runtime error (a message written to stderr by run), interpret returns
\* RuntimeError, and whenever it has, the value stack, the frame list and the
\* open-upvalue list are empty.
C3_ErrorResets ==
    /\ [](result = "RuntimeError"
            => (stack = <<>> /\ frames = <<>> /\ open_upvalues = <<>>))
    /\ [][(Running /\ stderr' # stderr) => result' = "RuntimeError"]_vars

\* C3 witness: a runtime error raised inside a call (two frames in the trace)
\* while an upvalue was open (the block program whose call fails).
C3_Witness ==
    /\ Script(BlockErrorProgram)
    /\ result = "RuntimeError"
    /\ Len(stderr) = 2
    /\ Len(upvalues) = 1 /\ upvalues[1].closed = None

\* C4: the number of active call frames never exceeds FRAMES_MAX (64) and the
\* value stack never exceeds FRAMES_MAX * 256 slots.
C4_FrameLimit == Len(frames) <= 64 /\ Len(stack) <= 64 * 256

\* equality by the rule of the specification, where it fixes one: false across
\* types, contents within Bool, Number and String, identity of the object
\* within Closure, Function and Native
SpecEqual(a, b) ==
    CASE a.t # b.t -> FALSE
      [] a.t = "Bool" -> a.b = b.b
      [] a.t = "Number" -> a.n = b.n
      [] a.t = "String" -> a.s = b.s
      [] a.t = "Closure" -> a.c = b.c
      [] a.t = "Function" -> a.f = b.f
      [] a.t = "Native" -> a.native = b.native

\* C5: Equal pushes false for operands of different types, the equality of the
\* contents for two Bools, Numbers or Strings, and the identity of the object
\* for two Closures, Functions or Natives.
C5_Equality ==
    [][(/\ Running /\ instruction = "Equal"
        /\ (peek(0).t # peek(1).t
              \/ peek(0).t \in {"Bool", "Number", "String", "Closure", "Function",
                                "Native"}))
            => Last(stack') = BoolV(SpecEqual(peek(1), peek(0)))]_vars

\* C6: Add pushes the sum of two Numbers or the concatenation of two Strings;
\* for every other operand pair it raises a runtime error and pushes nothing.
C6_AddTypes ==
    [][(Running /\ instruction = "Add")
            => IF peek(0).t = "Number" /\ peek(1).t = "Number"
               THEN stack' = push(pop(pop(stack)), NumberV(peek(1).n + peek(0).n))
               ELSE IF peek(0).t = "String" /\ peek(1).t = "String"
               THEN stack' = push(pop(pop(stack)), StringV(peek(1).s \o peek(0).s))
               ELSE result' = "RuntimeError" /\ stack' = <<>>]_vars

\* a is before b in the lexicographic order of their bytes
LexLess(a, b) ==
    \E i \in 1..Len(b) :
        /\ \A j \in 1..(i - 1) : j <= Len(a) /\ a[j] = b[j]
        /\ i = Len(a) + 1 \/ (i <= Len(a) /\ a[i] < b[i])

\* the two operands on top of the stack are both of type t
Both(t) == peek(0).t = t /\ peek(1).t = t

\* C7: Greater and Less push a Bool for two Numbers (numeric order) and for two
\* Strings (lexicographic order) and raise a runtime error for any other pair;
\* Subtract, Multiply and Divide raise a runtime error unless both operands are
\* Numbers; Negate raises a runtime error unless its operand is a Number.
C7_OperandTypes ==
    [][/\ (Running /\ instruction \in {"Greater", "Less"})
            => IF Both("Number")
               THEN /\ result' = "Running"
                    /\ stack' = push(pop(pop(stack)),
                                     BoolV(IF instruction = "Greater"
                                           THEN peek(1).n > peek(0).n
                                           ELSE peek(1).n < peek(0).n))
               ELSE IF Both("String")
               THEN /\ result' = "Running"
                    /\ stack' = push(pop(pop(stack)),
                                     BoolV(IF instruction = "Greater"
                                           THEN LexLess(peek(0).s, peek(1).s)
                                           ELSE LexLess(peek(1).s, peek(0).s)))
               ELSE result' = "RuntimeError"
       /\ (Running /\ instruction \in {"Subtract", "Multiply", "Divide"}
                   /\ ~Both("Number"))
            => result' = "RuntimeError"
       /\ (Running /\ instruction = "Negate" /\ peek(0).t # "Number")
            => result' = "RuntimeError"]_vars

\* C7 witness: fun f() {} print "b" > "a"; has printed true.
C7_Witness ==
    /\ Ran(<<SFun(NameF, 0, <<>>), SPrint(EBinary(EString(StrB), ">", EString(StrA)))>>)
    /\ result = "Ok"
    /\ stdout = <<StrTrue>>

\* C8: Call on a Closure whose arity differs from the argument count raises a
\* runtime error and pushes no frame; when they are equal it pushes exactly one
\* frame with ip = 0 whose slot base is the position of the callee,
\* height - argc - 1, and leaves the stack as it is.
C8_CallArity ==
    [][(Running /\ instruction = "Call" /\ peek(read_byte(1)).t = "Closure")
            => LET argc == read_byte(1)
                   callee == peek(argc)
               IN  IF argc # closures[callee.c].function.arity
                   THEN result' = "RuntimeError" /\ frames' = <<>>
                   ELSE /\ result' = "Running"
                        /\ Len(frames') = Len(frames) + 1
                        /\ SubSeq(frames', 1, Len(frames)) = Advance(2)
                        /\ Last(frames').ip = 0
                        /\ Last(frames').closure = callee.c
                        /\ Last(frames').function = closures[callee.c].function
                        /\ Last(frames').first_slot = Len(stack) - argc - 1
                        /\ stack' = stack
                        /\ At(stack', Last(frames').first_slot) = callee]_vars

\* C8 witness: a closure of arity 2 has just been called with two arguments.
C8_Witness ==
    /\ result = "Running"
    /\ Len(frames) = 2
    /\ frame.ip = 0
    /\ frame.function.arity = 2
    /\ frame.first_slot = Len(stack) - 3

\* C9: interpret never aborts the host process: a Call on a Native with any
\* argument count pushes a result or raises a runtime error.
C9_NoAbort == result # "Panic"

\* the constant operand of the instruction, a variable name
global_name == read_constant(1).s

\* C10: GetGlobal and SetGlobal on an unbound name raise the runtime error
\* Undefined variable '<name>', and a failing SetGlobal creates no binding;
\* SetGlobal on a bound name overwrites the binding with the top of the stack
\* and leaves the value on the stack.
C10_Globals ==
    [][(/\ Running /\ instruction \in {"GetGlobal", "SetGlobal"}
        /\ read_constant(1).t = "String")
            => IF global_name \notin DOMAIN globals
               THEN /\ result' = "RuntimeError"
                    /\ stderr'[Len(stderr) + 1].fmt = "Undefined variable '{}'"
                    /\ stderr'[Len(stderr) + 1].args = <<global_name>>
                    /\ globals' = globals
               ELSE /\ result' = "Running"
                    /\ instruction = "SetGlobal"
                         => /\ DOMAIN globals' = DOMAIN globals
                            /\ globals'[global_name] = peek(0)
                            /\ \A other \in DOMAIN globals \ {global_name} :
                                    globals'[other] = globals[other]
                            /\ stack' = stack]_vars

\* C10 witness: print x = 4; print x; has failed on the assignment, x unbound.
C10_Witness ==
    /\ Ran(<<SPrint(EAssign(NameX, ENumber(4))), SPrint(EVariable(NameX))>>)
    /\ result = "RuntimeError"
    /\ stdout = <<>>
    /\ stderr[1].fmt = "Undefined variable '{}'"
    /\ stderr[1].args = <<NameX>>
    /\ NameX \notin DOMAIN globals

\* the strings "42", "7", "script"
Str42 == <<52, 50>>
Str7 == <<55>>
StrScript == <<115, 99, 114, 105, 112, 116>>

\* C11: closures that capture the same local share one upvalue cell: there is
\* at most one open cell per stack location, a Closure instruction that captures
\* a local reuses the open cell of its location if there is one, and a write
\* through set is read through get while the variable is on the stack (42) and
\* after it has been closed (7), with no runtime error.
C11_SharedCell ==
    /\ [](\A i, j \in 1..Len(open_upvalues) :
            upvalues[open_upvalues[i]].location = upvalues[open_upvalues[j]].location
                => i = j)
    /\ []((Script(SharedProgram) /\ result # "Running")
            => (result = "Ok" /\ stdout = <<Str42, Str7>>))
    /\ [][(Running /\ instruction = "Closure" /\ read_constant(1).t = "Function")
            => \A k \in 0..(read_constant(1).f.upvalue_count - 1) :
                  LET location == frame.first_slot + read_byte(3 + 2 * k)
                      cell == Last(closures').upvalues[k + 1]
                  IN  read_byte(2 + 2 * k) # 0
                        => /\ upvalues'[cell].location = location
                           /\ \A i \in 1..Len(open_upvalues) :
                                upvalues[open_upvalues[i]].location = location
                                    => cell = open_upvalues[i]]_vars

\* C11 witness: the program of get and set has printed 42 and 7.
C11_Witness ==
    /\ Script(SharedProgram)
    /\ result = "Ok"
    /\ stdout = <<Str42, Str7>>
    /\ Len(upvalues) = 1

\* C13: a runtime error inside run prints the message and then exactly one line
\* per active frame, innermost first; each names the frame's function, the root
\* frame as script, and the line of the frame's most recent instruction: the
\* instruction that failed in the innermost frame, the Call in every caller.
C13_StackTrace ==
    [][(Running /\ stderr' # stderr)
            => /\ Len(stderr') = Len(stderr) + 1 + Len(frames)
               /\ \A i \in 1..Len(frames) :
                    LET f == frames[Len(frames) + 1 - i]
                        function == closures[f.closure].function
                        opcode == IF i = 1 THEN f.ip ELSE f.ip - 2
                        line == stderr'[Len(stderr) + 1 + i]
                    IN  /\ line.fmt = "[line {}] in {}"
                        /\ line.args[1] = DisplayNumber(At(function.chunk.lines, opcode))
                        /\ line.args[2] = IF i = Len(frames) THEN StrScript
                                          ELSE function.name]_vars

\* C13 witness: the trace of the error in b, called by a, called by the script.
C13_Witness ==
    /\ Script(TraceProgram)
    /\ result = "RuntimeError"
    /\ Len(stderr) = 4
    /\ stderr[2].args = <<Str2, StrB>>
    /\ stderr[3].args = <<Str1, StrA>>
    /\ stderr[4].args = <<Str3, StrScript>>

\* C20: the process exits only from run_file, after the one call of interpret has
\* returned, with 0 for Ok, 65 for CompileError and 70 for RuntimeError, or from
\* main with more than one argument, with 64 and nothing interpreted; the REPL
\* never exits and hands every line to the same VM, whose globals it keeps.
C20_ExitCodes ==
    /\ [][exit_code' # exit_code
            => \/ /\ mode = "file" /\ lines_read = 1
                  /\ \/ result = "Ok" /\ exit_code' = <<0>>
                     \/ result = "CompileError" /\ exit_code' = <<65>>
                     \/ result = "RuntimeError" /\ exit_code' = <<70>>
               \/ /\ mode = "usage" /\ lines_read = 0 /\ result = "New"
                  /\ exit_code' = <<64>>]_vars
    /\ [](mode = "usage" => (lines_read = 0 /\ result = "New"))
    /\ [](mode = "repl" => exit_code = <<>>)
    /\ [][(mode = "repl" /\ lines_read' # lines_read)
            => /\ globals' = globals
               /\ upvalues' = upvalues
               /\ SubSeq(closures', 1, Len(closures)) = closures]_vars

\* C20 witness: run_file has exited with 70 after a runtime error.
C20_Witness ==
    /\ mode = "file"
    /\ result = "RuntimeError"
    /\ exit_code = <<70>>

-----------------------------------------------------------------------------
(* Properties of Parser::compile. *)

\* Parser::compile has returned to VM::interpret
CompileReturned == parser # None /\ result \notin {"New", "Panic"}

\* C12: interpret returns CompileError exactly when the compiler reported an
\* error for the source (wrote a diagnostic), and had_error, once set, stays
\* set: nothing compiled after the error makes the compilation succeed.
C12_CompileError ==
    /\ [](CompileReturned =>
            (result = "CompileError" <=> stderr # <<>>))
    /\ [](parser # None => (Twin1.had_error <=> stderr # <<>>))
    /\ [][(parser # None /\ Twin1.had_error) => Twin1'.had_error]_vars

\* the source  ; 1;  has been compiled: one error, then a valid statement
C12_Witness ==
    /\ parser # None
    /\ result = "CompileError"
    /\ Len(stderr) = 1
    /\ Twin1.compilers[1].function.chunk.code =
            <<Byte("Pop"), Byte("Constant"), 0, Byte("Pop"), Byte("Nil"), Byte("Return")>>

\* the step ends a while statement: its handler was the innermost one waiting
WhileEnds == parser # None /\ Waiting = "while" /\ Len(Twin1'.nest) < Len(Twin1.nest)

\* the offsets emit_loop and patch_jump computed in the step that ends a while
\* statement: Loop and its operand are followed by one Pop
LoopOffset == (CodeLen(Twin1') - 3) - Last(Twin1.nest).a + 2
ExitJump == (CodeLen(Twin1') - 1) - Last(Twin1.nest).b - 2

\* the two operand bytes at the 0-based index i of the code of the script
Operand(p, i) ==
    compiler(p).function.chunk.code[i + 1] * 256 + compiler(p).function.chunk.code[i + 2]

\* C14: a loop whose backward offset exceeds 65535, or whose forward jump
\* does, is reported as a compile error; the operands written are the
\* offsets, never their low 16 bits alone.
C14_JumpLimits ==
    [][WhileEnds =>
        /\ LoopOffset > U16_MAX => Twin1'.had_error
        /\ ExitJump > U16_MAX => Twin1'.had_error
        /\ Twin1'.had_error \/ Operand(Twin1', CodeLen(Twin1') - 3) = LoopOffset
        /\ Twin1'.had_error \/ Operand(Twin1', Last(Twin1.nest).b) = ExitJump]_vars

\* the constant table of the current function of the first run
Constants(p) == compiler(p).function.chunk.constants

\* C15: the step that adds the 256th constant of a chunk reports "Too many
\* constants in one chunk.", and no constant table ever holds more than 256
\* entries.
C15_ConstantLimit ==
    /\ [](parser # None =>
            \A k \in 1..Len(Twin1.compilers) :
                Len(Twin1.compilers[k].function.chunk.constants) <= U8_COUNT)
    /\ [][(/\ parser # None
           /\ Len(Twin1'.compilers) = Len(Twin1.compilers)
           /\ Len(Constants(Twin1)) < U8_COUNT
           /\ Len(Constants(Twin1')) >= U8_COUNT) =>
            /\ Twin1'.had_error
            /\ Last(stderr').fmt = "[line {}] Error at '{}': Too many constants in one chunk."]_vars

\* the step compiles a var declaration without initializer
VarDeclared ==
    \E name \in Names(parser.source, compiler(Twin1)) :
        Twin1' = var_declaration(Twin1, name, None)

\* the step declares a local while the locals of the function are full
LocalRejected ==
    /\ parser # None
    /\ compiler(Twin1).scope_depth > 0
    /\ compiler(Twin1).local_count = U8_COUNT
    /\ VarDeclared

\* C16: no function has more than 256 locals, and the declaration of a 257th
\* one reports "Too many local variables in function.", adds no local and
\* leaves the locals there are as they were.
C16_LocalLimit ==
    /\ [](parser # None =>
            \A k \in 1..Len(Twin1.compilers) : Twin1.compilers[k].local_count <= U8_COUNT)
    /\ [][LocalRejected =>
            /\ Twin1'.had_error
            /\ Last(stderr').fmt =
                    "[line {}] Error at '{}': Too many local variables in function."
            /\ compiler(Twin1').local_count = compiler(Twin1).local_count
            /\ compiler(Twin1').locals = compiler(Twin1).locals]_vars

\* the step compiles one more argument of a call, one more parameter of a
\* function
ArgumentCompiled ==
    \E overflow_checks \in BOOLEAN : Twin1' = Argument(Twin1, ENil, overflow_checks)
ParameterCompiled ==
    \E name \in Names(parser.source, compiler(Twin1)) : Twin1' = Parameter(Twin1, name)

\* C17: the 256th argument of a call and the 256th parameter of a function
\* are reported ("Can't have more than 255 arguments." / "... parameters."),
\* interpret returns CompileError for such a source, and the argument counter
\* never overflows: the process does not panic and the counter does not wrap.
C17_ArgumentLimit ==
    /\ [][(parser # None /\ Waiting = "call" /\ Last(Twin1.nest).a = U8_MAX
                /\ ArgumentCompiled) =>
            /\ Twin1'.had_error
            /\ Last(stderr').fmt =
                    "[line {}] Error at '{}': Can't have more than 255 arguments."
            /\ ~Twin1'.aborted
            /\ Last(Twin1'.nest).a > Last(Twin1.nest).a]_vars
    /\ [][(parser # None /\ Waiting = "parameters"
                /\ compiler(Twin1).function.arity = U8_MAX /\ ParameterCompiled) =>
            /\ Twin1'.had_error
            /\ Last(stderr').fmt =
                    "[line {}] Error at '{}': Can't have more than 255 parameters."]_vars
    /\ [](parser # None => result # "Panic")
    /\ []((CompileReturned /\ Twin1.had_error) => result = "CompileError")

\* the locals of the current function named `name`: the slots below local_count
Declared(c, name) == {i \in 0..(c.local_count - 1) : LocalAt(c, i).name = name}

\* C18: in a block or function, `var name;` reports "A variable with this
\* name in this scope already exists." (unless an earlier error of the same
\* declaration is still being recovered from) and the compilation has failed
\* when a local of that name is declared at the current scope depth of the
\* function; when the name is declared at
\* smaller depths only (shadowing), or not at all, nothing is reported and the
\* local is added.
C18_Redeclaration ==
    [][\A name \in {NameX, NameF} :
        (/\ parser # None
         /\ compiler(Twin1).scope_depth > 0
         /\ compiler(Twin1).local_count < U8_COUNT
         /\ Twin1' = var_declaration(Twin1, name, None)) =>
            LET c == compiler(Twin1)
            IN  IF \E i \in Declared(c, name) : LocalAt(c, i).depth = c.scope_depth
                THEN /\ Twin1'.had_error
                     /\ Twin1.panic_mode \/
                            /\ Len(stderr') = Len(stderr) + 1
                            /\ Last(stderr').fmt = "[line {}] Error at '{}': A variable with this name in this scope already exists."
                ELSE /\ stderr' = stderr
                     /\ compiler(Twin1').local_count = c.local_count + 1
                     /\ LocalAt(compiler(Twin1'), c.local_count) =
                            Local(name, c.scope_depth, FALSE)]_vars

\* a name was declared again in its scope, which was reported, and a local
\* shadows one of an enclosing scope
C18_Witness ==
    /\ parser # None
    /\ Len(stderr) = 1
    /\ stderr[1].fmt = "[line {}] Error at '{}': A variable with this name in this scope already exists."
    /\ LET c == compiler(Twin1)
       IN  \E i \in Declared(c, NameX), j \in Declared(c, NameX) :
                LocalAt(c, i).depth < LocalAt(c, j).depth

\* C19: two compilations of one source, each with a fresh Parser, produce the
\* same functions at every point: the chunks under construction have the same
\* code and the same constants (nested functions among them), and compile
\* returns the same function or None in both.
C19_Deterministic ==
    parser # None =>
        /\ Len(Twin1.compilers) = Len(Twin2.compilers)
        /\ \A k \in 1..Len(Twin1.compilers) :
                Twin1.compilers[k].function = Twin2.compilers[k].function
        /\ Twin1.compiled = Twin2.compiled

\* a source without error has been compiled by two Parsers that found
\* different memory; its script holds a function with an upvalue
C19_Witness ==
    /\ parser # None
    /\ Twin1.uninit # Twin2.uninit
    /\ result = "Running"
    /\ Twin1.compiled # None
    /\ \E i \in 1..Len(Twin1.compiled.chunk.constants) :
            /\ Twin1.compiled.chunk.constants[i].t = "Function"
            /\ Twin1.compiled.chunk.constants[i].f.upvalue_count > 0

-----------------------------------------------------------------------------
(* Properties of Scanner::scan_token (ScanSpec). *)

\* a call of scan_token has returned
Scanned == scanner # None /\ scanner.token # None

\* the newlines among the bytes the scanner has consumed
NewlinesConsumed ==
    Cardinality({i \in 1..scanner.scanner.current :
                    scanner.scanner.source[i] = Char("\n")})

\* the source holds nothing but names, numbers, semicolons and whitespace:
\* valid tokens, separated by whitespace or by nothing
PlainSource ==
    \A i \in 1..Len(scanner.scanner.source) :
        LET ch == scanner.scanner.source[i]
        IN  \/ is_alpha(ch)
            \/ is_digit(ch)
            \/ ch \in {Char(";"), Char(" "), Char("\t"), Char("\r"), Char("\n")}

\* C21: over a source made only of valid tokens separated by whitespace,
\* scan_token never returns an Error token, and the line of the scanner is 1
\* plus the number of newlines it has consumed.
C21_SkipsWhitespace ==
    (Scanned /\ PlainSource) =>
        /\ scanner.token.token_type # "Error"
        /\ scanner.scanner.line = 1 + NewlinesConsumed

\* the token type of a name: its keyword, or Idenitifier
Classified(value) ==
    IF value \in Keywords
    THEN (CHOOSE keyword \in KeywordTable : keyword[1] = value)[2]
    ELSE "Idenitifier"

\* the last call returned the token of a name
ScannedName ==
    /\ Scanned
    /\ scanner.token.token_type \in {keyword[2] : keyword \in KeywordTable} \cup {"Idenitifier"}

\* C22: a name is a keyword token exactly when the whole lexeme is one of the
\* sixteen keywords, and an Idenitifier token otherwise, wherever it stands in
\* the source.
C22_Keywords ==
    ScannedName => scanner.token.token_type = Classified(scanner.token.value)

-----------------------------------------------------------------------------
(* Properties of the VM (Spec): messages, upvalues, closures and frames. *)

\* the cells of a list of cells
Cells(open) == {open[i] : i \in 1..Len(open)}

\* the line runtime_error writes first in this step
ReportedMessage == stderr'[Len(stderr) + 1]

\* C23: the runtime errors carry the normative texts: Operand must be a number
\* for Negate, Operands must be numbers for arithmetic and comparison,
\* Undefined variable '<name>' for an unbound global, Can only call functions
\* and classes. for a callee that is neither Closure nor Native, and
\* Expected N arguments but got M. for a closure called with M # N arguments.
C23_Messages ==
    [][(Running /\ result' = "RuntimeError") =>
        CASE instruction = "Negate" ->
                ReportedMessage = Message("Operand must be a number", <<>>)
          [] instruction \in {"Add", "Subtract", "Multiply", "Divide", "Greater", "Less"} ->
                ReportedMessage = Message("Operands must be numbers", <<>>)
          [] instruction \in {"GetGlobal", "SetGlobal"} ->
                ReportedMessage = Message("Undefined variable '{}'", <<read_constant(1).s>>)
          [] instruction = "Call" /\ peek(read_byte(1)).t = "Closure" ->
                ReportedMessage =
                    Message("Expected {} arguments but got {}.",
                            <<DisplayNumber(closures[peek(read_byte(1)).c].function.arity),
                              DisplayNumber(read_byte(1))>>)
          [] instruction = "Call" /\ peek(read_byte(1)).t \notin {"Closure", "Native"} ->
                ReportedMessage = Message("Can only call functions and classes.", <<>>)
          [] OTHER -> TRUE]_vars

\* the cell the operand of GetUpvalue or SetUpvalue selects
OperandCell == At(closure.upvalues, read_byte(1))

\* C24: GetUpvalue pushes the current value of the captured variable and
\* SetUpvalue stores the top of the stack into it without popping: both work
\* on stack[location] while the cell is open and on closed once it is closed,
\* and what GetUpvalue pushes is the stored value itself, never an Upvalue.
C24_UpvalueAccess ==
    [][/\ (Running /\ instruction = "GetUpvalue")
            => /\ stack' = push(stack, IF upvalues[OperandCell].closed # None
                                       THEN upvalues[OperandCell].closed
                                       ELSE At(stack, upvalues[OperandCell].location))
               /\ upvalues' = upvalues
       /\ (Running /\ instruction = "SetUpvalue")
            => IF upvalues[OperandCell].closed # None
               THEN /\ upvalues' = [upvalues EXCEPT ![OperandCell].closed = peek(0)]
                    /\ stack' = stack
               ELSE /\ stack' = [stack EXCEPT ![upvalues[OperandCell].location + 1] = peek(0)]
                    /\ upvalues' = upvalues]_vars

\* C26: between instructions every cell of the open list points into the
\* stack: its location is below the height of the stack, so no Pop, Return,
\* CloseUpvalue or truncation after a native call has removed a slot that an
\* open cell points to.
C26_OpenInStack ==
    \A i \in 1..Len(open_upvalues) : upvalues[open_upvalues[i]].location < Len(stack)

\* the end of a block is about to close the cell of its top slot
C26_Witness ==
    /\ Running
    /\ instruction = "CloseUpvalue"
    /\ open_upvalues # <<>>
    /\ upvalues[open_upvalues[1]].location = Len(stack) - 1

\* C27: the open list is ordered by stack location, descending, after every
\* capture_upvalue and every close_upvalues.
C27_Descending ==
    \A i, j \in 1..Len(open_upvalues) :
        i < j => upvalues[open_upvalues[i]].location > upvalues[open_upvalues[j]].location

\* the function a Closure instruction is about to wrap, and its k-th upvalue
\* (from 0) in the closure the step has made
ClosureFunction == read_constant(1).f
NewUpvalue(k) == At(Last(closures').upvalues, k)

\* C28: every closure that exists between instructions has as many upvalues as
\* its function's upvalue_count; the Closure instruction consumes exactly
\* upvalue_count pairs (is_local, index), the cell of a pair with is_local 1
\* being the open cell of stack[first_slot + index] and the cell of a pair
\* with is_local 0 the cell number index of the enclosing closure.
C28_ClosureUpvalues ==
    /\ [](\A c \in 1..Len(closures) :
            Len(closures[c].upvalues) = closures[c].function.upvalue_count)
    /\ [][(Running /\ instruction = "Closure" /\ read_constant(1).t = "Function") =>
            /\ Last(frames').ip = frame.ip + 2 + 2 * ClosureFunction.upvalue_count
            /\ Len(closures') = Len(closures) + 1
            /\ Last(closures').function = ClosureFunction
            /\ Len(Last(closures').upvalues) = ClosureFunction.upvalue_count
            /\ \A k \in 0..(ClosureFunction.upvalue_count - 1) :
                  IF read_byte(2 + 2 * k) = 1
                  THEN /\ NewUpvalue(k) \in Cells(open_upvalues')
                       /\ upvalues'[NewUpvalue(k)] =
                              UpvalueNew(frame.first_slot + read_byte(3 + 2 * k))
                  ELSE NewUpvalue(k) = At(closure.upvalues, read_byte(3 + 2 * k))]_vars

\* g has been made in f with the two cells of f, which f had captured as the
\* locals a and b of the script, and has printed their sum
C28_Witness ==
    /\ Len(closures) = 3
    /\ closures[2].upvalues = <<1, 2>>
    /\ closures[3].upvalues = <<1, 2>>
    /\ closures[3].function.upvalue_count = 2
    /\ stdout = <<<<51>>>>

\* C30: Return from a called function pops one frame, cuts the stack down to
\* the base of the frame and pushes the returned value, so that the callee
\* and its argc arguments are replaced by one result (the base is the height
\* at the Call less argc + 1) and the slots below the base are unchanged;
\* Return from the frame of the script ends run with Ok.
C30_ReturnEffect ==
    [][/\ (Running /\ instruction = "Return") =>
            IF Len(frames) > 1
            THEN /\ frames' = pop(frames)
                 /\ stack' = push(SubSeq(stack, 1, frame.first_slot), peek(0))
                 /\ result' = "Running"
            ELSE /\ frames' = <<>>
                 /\ result' = "Ok"
       /\ (Running /\ instruction = "Call" /\ Len(frames') > Len(frames)) =>
            /\ Last(frames').first_slot = Len(stack) - read_byte(1) - 1
            /\ stack' = stack]_vars

\* set(42) has returned to the block: the callee and its argument have given
\* way to nil above the locals x, get and set
C30_Witness ==
    /\ Running
    /\ Len(frames) = 1
    /\ Len(stack) = 5
    /\ stack[2] = NumberV(42)
    /\ stack[5] = NilV

-----------------------------------------------------------------------------
(* Properties of VM::close_upvalues (CloseSpec). *)

\* this step calls close_upvalues
Closing == Running /\ instruction \in {"Return", "CloseUpvalue"}

\* the argument of that call, and the stack it reads
ClosingLast == IF instruction = "Return" THEN frame.first_slot ELSE Len(stack) - 1
ClosingStack == IF instruction = "Return" THEN pop(stack) ELSE stack

\* C25: close_upvalues(last) closes every open cell at or above last, whatever
\* the order and the number of the cells in the list: such a cell takes the
\* value of its stack slot and leaves the list, and a cell below last stays
\* open and in the list; so after a Return no open cell is at or above the
\* base of the frame that returned.
C25_ClosesAbove ==
    [][Closing =>
        /\ result' # "Panic"
        /\ Cells(open_upvalues') \subseteq Cells(open_upvalues)
        /\ Len(upvalues') = Len(upvalues)
        /\ \A u \in Cells(open_upvalues) :
              IF upvalues[u].location >= ClosingLast
              THEN /\ u \notin Cells(open_upvalues')
                   /\ upvalues'[u].closed = At(ClosingStack, upvalues[u].location)
              ELSE /\ u \in Cells(open_upvalues')
                   /\ upvalues'[u] = upvalues[u]
        /\ instruction = "Return"
              => \A u \in Cells(open_upvalues') :
                    upvalues'[u].location < frame.first_slot]_vars

\* a Return has closed the first and the last cell of a list of three and has
\* left the middle one, a local of the block, open
C25_Witness ==
    /\ Len(frames) = 1
    /\ frame.ip = 2
    /\ Len(upvalues) = 3
    /\ open_upvalues = <<2>>
    /\ upvalues[1].closed # None
    /\ upvalues[2].closed = None
    /\ upvalues[3].closed # None

-----------------------------------------------------------------------------
(* Properties of the chunks Parser::compile returns (CompileSpec). *)

\* debug.rs, disassemble_instruction(offset): the offset of the next
\* instruction
disassemble_instruction(chunk, offset) ==
    LET op == OpCodeOf(At(chunk.code, offset))
        constant == At(chunk.constants, At(chunk.code, offset + 1))
    IN  CASE op \in {"Constant", "GetLocal", "SetLocal", "GetGlobal", "DefineGlobal",
                     "SetGlobal", "Call", "GetUpvalue", "SetUpvalue"} -> offset + 2
          [] op \in {"Jump", "JumpIfFalse", "Loop"} -> offset + 3
          [] op = "Closure" ->
                offset + 2 + (IF constant.t = "Function"
                              THEN 2 * constant.f.upvalue_count ELSE 0)
          [] OTHER -> offset + 1

\* the disassembly from the instruction at `from` on: the offset of the first
\* instruction at or after `to`, and the offsets of the jumps before `to`.
\* The walk is halved rather than done instruction by instruction.
RECURSIVE Disassembled(_, _, _)
Disassembled(chunk, from, to) ==
    IF from >= to THEN [next |-> from, jumps |-> {}]
    ELSE IF to - from <= 8
    THEN CHOOSE walk \in
            {[next |-> rest.next,
              jumps |-> rest.jumps \cup
                        (IF OpCodeOf(At(chunk.code, from)) \in {"Jump", "JumpIfFalse", "Loop"}
                         THEN {from} ELSE {})] :
                rest \in {Disassembled(chunk, next, to) :
                            next \in {disassemble_instruction(chunk, from)}}} : TRUE
    ELSE CHOOSE walk \in
            {[next |-> second.next, jumps |-> first.jumps \cup second.jumps] :
                <<first, second>> \in
                    UNION {{<<low, high>> : high \in {Disassembled(chunk, low.next, to)}} :
                            low \in {Disassembled(chunk, from, middle) :
                                        middle \in {(from + to) \div 2}}}} : TRUE

\* the offset is the first byte of an instruction of the chunk
FirstByte(chunk, offset) ==
    /\ 0 <= offset
    /\ offset < Len(chunk.code)
    /\ Disassembled(chunk, 0, offset).next = offset

\* where the jump at `offset` goes: jump_instruction of debug.rs, read_short of
\* the VM
JumpTarget(chunk, offset) ==
    LET jump == At(chunk.code, offset + 1) * 256 + At(chunk.code, offset + 2)
    IN  IF OpCodeOf(At(chunk.code, offset)) = "Loop"
        THEN offset + 3 - jump ELSE offset + 3 + jump

\* every jump of the chunk goes to the first byte of an instruction of the chunk
JumpsLand(chunk) ==
    \A offset \in Disassembled(chunk, 0, Len(chunk.code)).jumps :
        FirstByte(chunk, JumpTarget(chunk, offset))

\* the chunk of a function and the chunks of the functions among its constants
RECURSIVE FunctionJumpsLand(_)
FunctionJumpsLand(function) ==
    /\ JumpsLand(function.chunk)
    /\ \A i \in 1..Len(function.chunk.constants) :
          function.chunk.constants[i].t = "Function"
              => FunctionJumpsLand(function.chunk.constants[i].f)

\* C29: in every chunk of an error-free compilation each Jump, JumpIfFalse and
\* Loop has a target inside the code of the chunk that is the first byte of
\* an instruction.
C29_JumpTargets ==
    (parser # None /\ Twin1.compiled # None) => FunctionJumpsLand(Twin1.compiled)

-----------------------------------------------------------------------------
(* Properties of Scanner::scan_token (ScanSpec): the end of the source. *)

\* C40: no call of scan_token indexes or slices the source at or past its end
\* (no call panics), whatever the source ends with, and once the EOF token
\* has been returned a further call returns it again and moves nothing.
C40_InBounds ==
    scanner # None =>
        /\ result # "Panic"
        /\ ReturnedEOF =>
            /\ is_at_end(scanner.scanner)
            /\ scan_token(scanner.scanner) = scanner

-----------------------------------------------------------------------------
(* Properties of VM::interpret (Spec): a source that does not compile. *)

\* C39: interpret returns CompileError without having entered run, and the
\* step that returns it leaves the value stack, the frame list, the
\* open-upvalue list and the globals as they were before the call; no closure
\* is made and nothing is printed.
C39_CompileErrorFrame ==
    [][result' = "CompileError" =>
        /\ ~Running
        /\ UNCHANGED <<stack, frames, open_upvalues, globals, closures, upvalues,
                       stdout>>]_vars

\* C39 witness: the second line of the REPL does not compile, after a first
\* line that has defined the global x and has printed nothing.
C39_Witness ==
    /\ mode = "repl"
    /\ lines_read = 2
    /\ result = "CompileError"
    /\ NameX \in DOMAIN globals
    /\ globals[NameX] = NumberV(1)
    /\ stack = <<>> /\ frames = <<>>

(* Properties of Parser::compile over the tokens of a source (ParseSpec). *)

\* C38: the compilation of a finite token stream ends.  No turn of the loop
\* of compile or of block leaves the place in the tokens where it was, a call
\* of synchronize consumes at least one token for each turn of its loop, every
\* turn of the loop of compile moves on in the tokens, and compile has
\* returned only at their end, with a function exactly when it reported no
\* error: a failure otherwise.
C38_Terminates ==
    [][/\ ~Twin1'.stalled
       /\ \A i \in 1..Len(Twin1'.syncs) : Twin1'.syncs[i].skipped >= Twin1'.syncs[i].turns
       /\ CompileDeclaration => Twin1'.at > Twin1.at /\ Twin1'.at <= Len(Twin1.tokens)
       /\ CompileReturn =>
            /\ Twin1.at = Len(Twin1.tokens)
            /\ result' = "CompileError" <=> Twin1'.had_error
            /\ result' \in {"CompileError", "Running"}]_vars
C38_Witness ==
    /\ Twin1.tokens = Source(<<"{", "print", "1">>)
    /\ result = "CompileError"
    /\ Len(Twin1.syncs) = 2
    /\ Len(stderr) = 2

\* the diagnostics written since the last call of synchronize, or since the
\* start
SinceSynchronized(p) ==
    Len(p.eprint) - (IF p.syncs = <<>> THEN 0 ELSE Last(p.syncs).errors)

\* C33: between two calls of synchronize, before the first and after the last
\* the compiler writes at most one diagnostic, and synchronize returns only at
\* EOF, right after a ';' or in front of class, fun, var, for, if, while,
\* print or return.
C33_PanicMode ==
    parser # None =>
        /\ SinceSynchronized(Twin1) <= 1
        /\ Twin1.syncs # <<>> => Twin1.syncs[1].errors <= 1
        /\ \A i \in 1..(Len(Twin1.syncs) - 1) :
              Twin1.syncs[i + 1].errors - Twin1.syncs[i].errors <= 1
        /\ \A i \in 1..Len(Twin1.syncs) :
              \/ Twin1.syncs[i].current = "EOF"
              \/ Twin1.syncs[i].previous = "Semicolon"
              \/ Twin1.syncs[i].current \in
                    {"Class", "Fun", "Var", "For", "If", "While", "Print", "Return"}
C33_Witness ==
    /\ Twin1.tokens = Source(<<")", ";", "1">>)
    /\ result = "CompileError"
    /\ Len(Twin1.syncs) = 2
    /\ Twin1.syncs[1].previous = "Semicolon" /\ Twin1.syncs[1].current = "Number"
    /\ Twin1.syncs[2].current = "EOF"
    /\ Len(stderr) = 2

\* the run of a source has ended
Ended == result \notin {"New", "Running"}

\* the lines println! writes for these values
Lines(values) == [i \in 1..Len(values) |-> DisplayPlain(values[i])]

\* the source of the run is `words`, it has run to its end without an error
\* and written `values`
Writes(words, values) ==
    parser.source = "program" /\ Ended /\ Twin1.tokens = Source(words) =>
        result = "Ok" /\ stdout = Lines(values)

\* the levels of the binary operators, ascending
Level(token_type) ==
    CASE token_type \in {"EqualEqual", "BangEqual"} -> 1
      [] token_type \in {"Less", "LessEqual", "Greater", "GreaterEqual"} -> 2
      [] token_type \in {"Plus", "Minus"} -> 3
      [] token_type \in {"Star", "Slash"} -> 4

\* the code of  print 1 op1 2 op2 3 ;  when op2 binds tighter than op1, and
\* when it does not
PushConstant(k) == <<Byte("Constant"), k>>

PairCode(op1, op2) ==
    (IF Level(op2) > Level(op1)
     THEN PushConstant(0) \o PushConstant(1) \o PushConstant(2) \o BinaryCode(op2) \o BinaryCode(op1)
     ELSE PushConstant(0) \o PushConstant(1) \o BinaryCode(op1) \o PushConstant(2) \o BinaryCode(op2))
        \o <<Byte("Print"), Byte("Nil"), Byte("Return")>>

\* the source of the run is  print 1 op1 2 op2 3 ;  and it is compiled
PairCompiled ==
    /\ parser.source = "program" /\ result # "New"
    /\ Len(Twin1.tokens) = 7
    /\ Twin1.tokens[1].token_type = "Print"
    /\ Twin1.tokens[3].token_type \in DOMAIN [t \in {"EqualEqual", "BangEqual", "Less",
            "LessEqual", "Greater", "GreaterEqual", "Plus", "Minus", "Star", "Slash"} |-> 0]
    /\ Twin1.tokens[5].token_type \in DOMAIN [t \in {"EqualEqual", "BangEqual", "Less",
            "LessEqual", "Greater", "GreaterEqual", "Plus", "Minus", "Star", "Slash"} |-> 0]

\* C36: two binary operators in a row: the second is applied to the third
\* operand alone, after the first, unless its level is higher; then it is
\* applied first.  Unary binds tighter than the binary operators and Call
\* tighter than Unary; And tighter than Or, both looser than Equality, and
\* Assignment loosest, to the right.  (1 + 2) * 3 - 4 / 2 is 7, and
\* a * b = c  is the error "Invalid assignment target.".
C36_Pratt ==
    parser # None =>
        /\ PairCompiled =>
              /\ Twin1.compiled # None
              /\ Twin1.compiled.chunk.code =
                    PairCode(Twin1.tokens[3].token_type, Twin1.tokens[5].token_type)
        /\ Writes(<<"print", "(", "1", "+", "2", ")", "*", "3", "-", "4", "/", "2", ";">>,
                  <<NumberV(7)>>)
        /\ Writes(<<"print", "!", "1", "==", "2", ";">>, <<BoolV(FALSE)>>)
        /\ Writes(<<"print", "-", "1", "-", "2", ";">>, <<NumberV(0 - 3)>>)
        /\ Writes(<<"fun", "f", "(", ")", "{", "return", "1", ";", "}",
                    "print", "-", "f", "(", ")", ";">>, <<NumberV(0 - 1)>>)
        /\ Writes(<<"print", "false", "and", "1", "or", "2", ";">>, <<NumberV(2)>>)
        /\ Writes(<<"print", "1", "or", "2", "==", "3", ";">>, <<NumberV(1)>>)
        /\ Writes(<<"print", "nil", "and", "nil", "==", "nil", ";">>, <<NilV>>)
        /\ Writes(<<"var", "x", ";", "print", "x", "=", "false", "or", "2", ";",
                    "print", "x", ";">>, <<NumberV(2), NumberV(2)>>)
        /\ Writes(<<"var", "a", ";", "var", "b", ";", "a", "=", "b", "=", "1", ";",
                    "print", "a", ";">>, <<NumberV(1)>>)
        /\ (/\ parser.source = "program" /\ Ended
            /\ Twin1.tokens = Source(<<"var", "a", ";", "var", "b", ";", "var", "c", ";",
                                       "a", "*", "b", "=", "c", ";">>)) =>
              /\ result = "CompileError"
              /\ stderr = <<Message("[line {}] Error at '{}': Invalid assignment target.",
                                    <<DisplayNumber(1), Str(<<"=">>)>>)>>
C36_Witness ==
    /\ Twin1.tokens = Source(<<"print", "(", "1", "+", "2", ")", "*", "3", "-", "4", "/",
                               "2", ";">>)
    /\ result = "Ok"
    /\ stdout = <<DisplayNumber(7)>>

\* the value of a literal token
Literal(token) ==
    CASE token.token_type = "Nil" -> NilV
      [] token.token_type = "True" -> BoolV(TRUE)
      [] token.token_type = "False" -> BoolV(FALSE)
      [] token.token_type = "Number" -> NumberV(NumberOf(token.value))
      [] token.token_type = "String" ->
            StringV(SubSeq(token.value, 2, Len(token.value) - 1))

\* the source of the run is  var x = 0; print a and (x = 1); print x;  or the
\* same with or: a is the 7th token and the operator the 8th
Logical ==
    /\ parser # None /\ parser.source = "program"
    /\ Len(Twin1.tokens) = 17
    /\ Twin1.tokens[8].token_type \in {"And", "Or"}

\* what such a source writes when the right operand is skipped exactly on
\* these values of a
ShortCircuit(skipped) ==
    IF skipped THEN Lines(<<Literal(Twin1.tokens[7]), NumberV(0)>>)
    ELSE Lines(<<NumberV(1), NumberV(1)>>)

\* C35: a and b is a, and b is not evaluated, when a is falsey (Nil or
\* false), else it is the value of b; a or b is a, and b is not evaluated, when
\* a is truthy, else it is the value of b; either way one value is on the
\* stack when the expression has been evaluated.
C35_ShortCircuit ==
    Logical =>
        /\ Running /\ instruction = "Print" => Len(stack) = 2
        /\ Ended =>
              /\ result = "Ok"
              /\ stdout = ShortCircuit(IF Twin1.tokens[8].token_type = "And"
                                       THEN Falsey(Literal(Twin1.tokens[7]))
                                       ELSE ~Falsey(Literal(Twin1.tokens[7])))

\* the source of the run is  if (e) print 1; else print 2; print 3;  or the
\* same without the else branch
IfSource ==
    /\ parser # None /\ parser.source = "program"
    /\ Twin1.tokens[1].token_type = "If"

\* the source of the run is
\*   { var a = e; if (a) { var b = 1; print b; } else print 2; print a; }
IfInBlock ==
    /\ parser # None /\ parser.source = "program"
    /\ Len(Twin1.tokens) >= 7
    /\ Twin1.tokens[1].token_type = "LeftBrace"
    /\ Twin1.tokens[7].token_type = "If"

\* C34: JumpIfFalse leaves the stack as it is.  The code of if runs exactly
\* one branch (none when the condition fails and there is no else), and with
\* the condition popped on either path: at every print of the global
\* statements the stack holds the script and the value to print, and in a
\* block the locals declared before and inside the if are read at their
\* slots.
C34_IfStatement ==
    /\ [][Running /\ instruction = "JumpIfFalse" => stack' = stack]_vars
    /\ [](IfSource =>
            /\ Running /\ instruction = "Print" => Len(stack) = 2
            /\ Ended =>
                 /\ result = "Ok"
                 /\ stdout \in {Lines(<<NumberV(1), NumberV(3)>>),
                                IF \E i \in 1..Len(Twin1.tokens) :
                                      Twin1.tokens[i].token_type = "Else"
                                THEN Lines(<<NumberV(2), NumberV(3)>>)
                                ELSE Lines(<<NumberV(3)>>)})
    /\ [](IfInBlock /\ Ended =>
            /\ result = "Ok"
            /\ stack = <<>>
            /\ stdout \in {Lines(<<NumberV(1), Literal(Twin1.tokens[5])>>),
                           Lines(<<NumberV(2), Literal(Twin1.tokens[5])>>)})
C34_Witness ==
    /\ Twin1.tokens = Source(<<"if", "(", "nil", ")", "print", "1", ";", "else",
                               "print", "2", ";", "print", "3", ";">>)
    /\ result = "Ok"
    /\ stdout = Lines(<<NumberV(2), NumberV(3)>>)

\* the slots of the locals called `name` among `locals`, from 0
SlotsNamed(locals, name) == {i \in 0..(Len(locals) - 1) : locals[i + 1].name = name}

\* the greatest number of a set of naturals that is not empty
Greatest(numbers) == CHOOSE n \in numbers : \A m \in numbers : m <= n

\* the functions around function number k that have a local called `name`
Enclosing(levels, k, name) ==
    {j \in 1..(k - 1) : SlotsNamed(levels[j].locals, name) # {}}

\* the function and the slot of the local that upvalue number `index` of
\* function number k stands for
RECURSIVE Captured(_, _, _)
Captured(levels, k, index) ==
    IF levels[k].upvalues[index + 1].is_local
    THEN <<k - 1, levels[k].upvalues[index + 1].index>>
    ELSE Captured(levels, k - 1, levels[k].upvalues[index + 1].index)

OwnInitializer == "Can't read local variable in its own initializer."

\* what the resolution recorded in `read` has to be for a name whose last
\* declaration is slot `slot` of function number j of k
ResolvedTo(read, j, k, slot) ==
    IF read.before[j].locals[slot + 1].depth = 0 - 1
    THEN /\ read.failed
         /\ read.message \in {"", "[line {}] Error at '{}': " \o OwnInitializer}
    ELSE /\ ~read.failed
         /\ read.message = ""
         /\ IF j = k
            THEN read.get_op = "GetLocal" /\ read.arg = slot
            ELSE /\ read.get_op = "GetUpvalue"
                 /\ Captured(read.after, k, read.arg) = <<j, slot>>
                 /\ read.after[j].locals[slot + 1].is_captured

\* C32: a name is resolved to the local of the current function declared last
\* under that name; if there is none, to an upvalue that stands for the local
\* declared last under that name in the nearest enclosing function that has
\* one, and that local is marked captured; if there is none either, to the
\* global of that name.  When the local found is declared and not yet
\* initialized, the resolution is the error "Can't read local variable in its
\* own initializer.".
C32_Resolution ==
    parser # None =>
        /\ \A i \in 1..Len(Twin1.reads) :
              LET read == Twin1.reads[i]
                  k == Len(read.before)
                  own == SlotsNamed(read.before[k].locals, read.name)
                  outer == Enclosing(read.before, k, read.name)
              IN  IF own # {} THEN ResolvedTo(read, k, k, Greatest(own))
                  ELSE IF outer # {}
                  THEN ResolvedTo(read, Greatest(outer), k,
                                  Greatest(SlotsNamed(read.before[Greatest(outer)].locals,
                                                      read.name)))
                  ELSE /\ ~read.failed
                       /\ read.message = ""
                       /\ read.get_op = "GetGlobal"
                       /\ read.constant = StringV(read.name)
        /\ Writes(<<"{", "var", "a", "=", "1", ";", "{", "var", "a", "=", "2", ";",
                    "print", "a", ";", "}", "print", "a", ";", "}">>,
                  <<NumberV(2), NumberV(1)>>)
        /\ Writes(<<"var", "a", "=", "1", ";", "fun", "f", "(", ")", "{", "var", "a", "=",
                    "2", ";", "fun", "g", "(", ")", "{", "print", "a", ";", "}",
                    "g", "(", ")", ";", "}", "f", "(", ")", ";">>,
                  <<NumberV(2)>>)
        /\ Writes(<<"var", "a", "=", "1", ";", "fun", "f", "(", ")", "{", "print", "a", ";",
                    "}", "f", "(", ")", ";">>,
                  <<NumberV(1)>>)
        /\ Writes(<<"fun", "f", "(", ")", "{", "var", "a", "=", "2", ";", "fun", "g", "(", ")",
                    "{", "fun", "f", "(", ")", "{", "print", "a", ";", "}", "f", "(", ")",
                    ";", "}", "g", "(", ")", ";", "}", "f", "(", ")", ";">>,
                  <<NumberV(2)>>)
C32_Witness ==
    /\ Twin1.tokens = Source(<<"var", "a", "=", "1", ";", "{", "var", "a", "=", "a", ";", "}">>)
    /\ result = "CompileError"
    /\ Len(Twin1.reads) = 1
    /\ Twin1.reads[1].failed
    /\ stderr = <<Message("[line {}] Error at '{}': " \o OwnInitializer,
                          <<DisplayNumber(1), Str(<<"a">>)>>)>>

\* the instructions of end_scope for these locals, TRUE for a captured one
Dropped(captured) ==
    [j \in 1..Len(captured) |->
        IF captured[j] THEN Byte("CloseUpvalue") ELSE Byte("Pop")]

\* C31: every call of end_scope writes one instruction for each local added
\* since the matching begin_scope, the last one first, CloseUpvalue for a
\* captured local and Pop for another, and nothing else; it leaves
\* local_count as begin_scope found it and scope_depth one below what it was.
C31_ScopeEnd ==
    parser # None =>
        \A i \in 1..Len(Twin1.scopes) :
            /\ Twin1.scopes[i].code = Dropped(Twin1.scopes[i].captured)
            /\ Twin1.scopes[i].local_count = Twin1.scopes[i].opened.local_count
            /\ Twin1.scopes[i].scope_depth = Twin1.scopes[i].inner_depth - 1
            /\ Twin1.scopes[i].scope_depth = Twin1.scopes[i].opened.scope_depth

\* C37: whenever interpret has returned Ok the value stack, the frames and the
\* list of open upvalues are empty; the next line of the REPL leaves the
\* globals as that line left them and starts to run with the closure of its
\* script alone on the stack, in one frame at slot 0.
C37_CleanAfterOk ==
    /\ [](result = "Ok" => stack = <<>> /\ frames = <<>> /\ open_upvalues = <<>>)
    /\ [][(result = "Ok" /\ lines_read' = lines_read + 1) =>
            /\ globals' = globals
            /\ result' = "Running" =>
                    /\ stack' = <<ClosureV(Len(closures'))>>
                    /\ Len(frames') = 1
                    /\ frames'[1].first_slot = 0]_vars

\* C37 witness: the REPL has run  var x = 1;  and then  print x;  to Ok
C37_Witness ==
    /\ mode = "repl"
    /\ lines_read = 2
    /\ result = "Ok"
    /\ stdout = <<Display(NumberV(1))>>
    /\ globals[NameX] = NumberV(1)
    /\ stack = <<>>

====
